---- MODULE Spec2Model ----
(***************************************************************************)
(* A model of the Signatures content-assembly tool:                        *)
(*   - signatures_rules.build_signatures_output over the registries of     *)
(*     signatures_content (specification SpecRules),                       *)
(*   - signatures_engine: the preloaded bank, prompt_signatures_input and   *)
(*     build_payload (specification SpecEngine),                           *)
(*   - questions.build_question_bank and its normalisers                   *)
(*     (specification SpecLoader),                                         *)
(*   - the bank's runtime operations: autofix_question_bank,                *)
(*     validate_question_bank, get_question_by_id and search_questions      *)
(*     (specification SpecBank),                                           *)
(*   - both assembly paths side by side (specification SpecAssembly).      *)
(*                                                                         *)
(* Encodings.                                                              *)
(*   Text: a Python str that the code strips or tests for emptiness is a    *)
(*     sequence of atoms; the atom " " is one blank, any other atom stands  *)
(*     for a run of non-blank text.  "" is <<>>.                           *)
(*   Dict: a Python dict whose iteration order matters is a sequence of     *)
(*     <<key, value>> pairs with pairwise different keys, in insertion      *)
(*     order.  A static registry, only ever looked up, is a function.       *)
(*   None / Optional: <<>> is None and <<x>> is the value x.                *)
(*   Raw loader input of type Any: a value tagged with its Python type;     *)
(*     pack keys, driver keys, tag codes and keywords are strings of        *)
(*     characters, since the loader changes their case and filters them.    *)
(*   An exception: the result record carries raised # "".                   *)
(***************************************************************************)
EXTENDS Integers, Sequences, FiniteSets, TLC

VARIABLES
    \* ---- signatures_rules.build_signatures_output --------------------
    question,            \* the Question object handed to the assembler
    persona,             \* the persona handed to the assembler
    calculator_results,  \* the calculator results handed to the assembler
    out,                 \* what build_signatures_output gave (done is FALSE before the call)
    \* ---- signatures_engine -------------------------------------------
    QUESTION_BANK,       \* qid -> PreloadedQuestion (module global filled by _add)
    SECURITY_RULES,      \* (behavior, condition or None) -> rule text
    calc_mod,            \* the calculator module: attribute name -> attribute
    pc,                  \* where main() stands: "import", "prompt", "build", "done"
    sig,                 \* the SignaturesInput returned by prompt_signatures_input
    preloaded,           \* Optional[PreloadedQuestion] returned with it
    payload,             \* what build_payload gave
    asked_qid,           \* the id typed at "Enter question ID" that was not found, "" if none
    \* ---- questions.build_question_bank --------------------------------
    packs,               \* the PACKS handed to build_question_bank (a Dict)
    question_bank,       \* the bank it built (a Dict qid -> item)
    loaded,              \* the module import: "init", then "built" or "raised"
    ret,                 \* the last call on the bank and what it returned
    \* ---- the interactive prompts and the scripts -----------------------
    cli,                 \* prompt_signatures_input: the prompt it stands at and its locals
    session,             \* run_exercise_session: the stage it stands at and what it printed
    parsed               \* parse_blocks: the lines left and its locals

rulesVars  == <<question, persona, calculator_results, out>>
engineVars == <<QUESTION_BANK, SECURITY_RULES, calc_mod, pc, sig, preloaded, payload, asked_qid>>
loaderVars == <<packs, question_bank, loaded, ret>>
scriptVars == <<cli, session, parsed>>
vars       == <<rulesVars, engineVars, loaderVars, scriptVars>>

-----------------------------------------------------------------------------
(* Bounds of the model. *)

\* longest list of action-plan codes a question carries
MaxCodes == 2

-----------------------------------------------------------------------------
(* Python helpers. *)

\* the sequences over S of length at most n
SeqUpTo(S, n) == UNION {[1..k -> S] : k \in 0..n}

\* the set of values of a sequence
Range(s) == {s[i] : i \in DOMAIN s}

\* str.lstrip(chars) / str.rstrip(chars) / str.strip(chars)
RECURSIVE lstripSet(_, _)
lstripSet(t, S) == IF t = <<>> THEN t
                   ELSE IF Head(t) \in S THEN lstripSet(Tail(t), S) ELSE t

RECURSIVE rstripSet(_, _)
rstripSet(t, S) == IF t = <<>> THEN t
                   ELSE IF t[Len(t)] \in S THEN rstripSet(SubSeq(t, 1, Len(t) - 1), S) ELSE t

stripSet(t, S) == rstripSet(lstripSet(t, S), S)

\* str.strip(): whitespace off both ends
strip(t) == stripSet(t, {" "})

\* the letters and digits of the character strings
LowerToUpper == ("a" :> "A") @@ ("b" :> "B") @@ ("c" :> "C") @@ ("e" :> "E")
             @@ ("g" :> "G") @@ ("h" :> "H") @@ ("k" :> "K") @@ ("m" :> "M")
             @@ ("o" :> "O") @@ ("p" :> "P") @@ ("r" :> "R") @@ ("s" :> "S")
             @@ ("t" :> "T") @@ ("d" :> "D") @@ ("i" :> "I") @@ ("l" :> "L")
             @@ ("n" :> "N") @@ ("y" :> "Y")
UpperLetters == {LowerToUpper[c] : c \in DOMAIN LowerToUpper}
DigitValue   == ("0" :> 0) @@ ("1" :> 1) @@ ("2" :> 2) @@ ("3" :> 3) @@ ("4" :> 4)
             @@ ("5" :> 5) @@ ("6" :> 6) @@ ("7" :> 7) @@ ("8" :> 8) @@ ("9" :> 9)

\* str.upper() / str.lower() / str.isalnum(), character by character
UpperChar(c) == IF c \in DOMAIN LowerToUpper THEN LowerToUpper[c] ELSE c
LowerChar(c) == IF c \in UpperLetters
                THEN CHOOSE l \in DOMAIN LowerToUpper : LowerToUpper[l] = c ELSE c
upper(t) == [i \in DOMAIN t |-> UpperChar(t[i])]
lower(t) == [i \in DOMAIN t |-> LowerChar(t[i])]
isalnum(c) == c \in DOMAIN LowerToUpper \/ c \in UpperLetters \/ c \in DOMAIN DigitValue

\* d.get(k, default) on a function-encoded dict
Get(d, k, default) == IF k \in DOMAIN d THEN d[k] ELSE default

\* an empty function-encoded dict ({} or a None that the code replaces by {})
EmptyDict == <<>>

\* Dict (ordered): keys in iteration order
DictKeys(d) == [i \in DOMAIN d |-> d[i][1]]

\* Dict (ordered): k in d
DictHas(d, k) == \E i \in DOMAIN d : d[i][1] = k

\* Dict (ordered): d.get(k, default)
DictGet(d, k, default) ==
    IF DictHas(d, k) THEN d[CHOOSE i \in DOMAIN d : d[i][1] = k][2] ELSE default

\* DictSet as a list append would do it: an existing key gets a second entry
DictAppend(d, k, v) == Append(d, <<k, v>>)

\* Dict (ordered): d[k] = v; an existing key keeps its place
DictSet(d, k, v) ==
    IF DictHas(d, k)
    THEN [d EXCEPT ![CHOOSE i \in DOMAIN d : d[i][1] = k] = <<k, v>>]
    ELSE Append(d, <<k, v>>)

\* a Python value seen through attribute access: a dict has no data attributes
PyDict(items)   == [pytype |-> "dict", attrs |-> items]
PyObject(attrs) == [pytype |-> "object", attrs |-> attrs]
HasAttr(obj, name) == obj.pytype = "object" /\ name \in DOMAIN obj.attrs

\* the result variable of an operation not run yet, and of one that no caller runs
NotCalled == [done |-> FALSE, caller |-> TRUE]
NoCaller  == [done |-> FALSE, caller |-> FALSE]

\* the variables of a part of the program that a specification leaves out
RulesIdle ==
    /\ question = PyObject(EmptyDict)
    /\ persona = "Listener"
    /\ calculator_results = EmptyDict
    /\ out = NoCaller

EngineIdle ==
    /\ QUESTION_BANK = EmptyDict
    /\ SECURITY_RULES = EmptyDict
    /\ calc_mod = EmptyDict
    /\ pc = "idle"
    /\ sig = EmptyDict
    /\ preloaded = <<>>
    /\ payload = NotCalled
    /\ asked_qid = <<>>

LoaderIdle ==
    /\ packs = <<>>
    /\ question_bank = <<>>
    /\ loaded = "idle"
    /\ ret = [op |-> "none"]

PromptIdle  == cli = [at |-> "idle"]
SessionIdle == session = [at |-> "idle"]
ParserIdle  == parsed = [at |-> "idle"]
ScriptsIdle == PromptIdle /\ SessionIdle /\ ParserIdle

-----------------------------------------------------------------------------
(* signatures_content.py: the registries (a representative part of each;   *)
(* a message is abbreviated to one atom naming it).                        *)

PERSONAS == {"Listener", "Motivator", "Director", "Expert"}

BEHAVIORAL_CORE_MESSAGES ==
    ("GEN" :> [label   |-> "General Support",
               default |-> <<"BC.GEN.default">>,
               persona |-> [p \in PERSONAS |-> <<"BC.GEN", p>>]])
 @@ ("PA"  :> [label    |-> "Physical Activity",
               default  |-> <<"BC.PA.default">>,
               persona  |-> [p \in PERSONAS |-> <<"BC.PA", p>>],
               hl_plain |-> <<"BC.PA.hl_plain">>])
 @@ ("NUT" :> [label |-> "Nutrition", default |-> <<"BC.NUT.default">>])
 @@ ("HL"  :> [label |-> "Health Literacy", default |-> <<"BC.HL.default">>])

CONDITION_MODIFIER_MESSAGES ==
    ("HTN" :> [label |-> "High Blood Pressure", default |-> <<"CM.HTN.default">>])
 @@ ("CD"  :> [label |-> "Cardiac Disease (general)", default |-> <<"CM.CD.default">>])

ENGAGEMENT_DRIVER_MESSAGES ==
    ("PR" :> [label   |-> "Proactive framing",
              default |-> <<"ED.PR.default">>,
              persona |-> [p \in PERSONAS |-> <<"ED.PR", p>>]])
 @@ ("HL" :> [label    |-> "Health literacy shift",
              default  |-> <<"ED.HL.default">>,
              hl_plain |-> <<"ED.HL.hl_plain">>])
 @@ ("GO" :> [label |-> "Goal orientation", default |-> <<"ED.GO.default">>])
 @@ ("TR" :> [label |-> "Trust", default |-> <<"ED.TR.default">>])

CONTENT_SECURITY_RULES ==
    ("HTN_CRISIS" :> [label    |-> "Hypertensive crisis",
                      message  |-> <<"SR.HTN_CRISIS.message">>,
                      severity |-> "high"])
 @@ ("MEDS_NO_STOP_WITHOUT_CLINICIAN" :>
                     [label    |-> "Medication safety",
                      message  |-> <<"SR.MEDS.message">>,
                      severity |-> "medium"])

ACTION_PLANS ==
    ("DASH" :> [label |-> "DASH plan", message |-> <<"AP.DASH.message">>])
 @@ ("SMBP" :> [label |-> "Home BP monitoring", message |-> <<"AP.SMBP.message">>])

-----------------------------------------------------------------------------
(* signatures_rules.py *)

\* the last-resort sentence of build_signatures_output
LastResortMessage == <<"Start with one small step today and build gradually.">>

\* _pick_message(block, persona)
_pick_message(block, p) ==
    IF "persona" \in DOMAIN block /\ p \in DOMAIN block.persona
    THEN strip(block.persona[p])
    ELSE IF Get(block, "default", <<>>) # <<>> THEN strip(block.default)
    ELSE IF Get(block, "message", <<>>) # <<>> THEN strip(block.message)
    ELSE <<>>

\* extract_mylifecheck(calculator_results): the first dict among the known keys
extract_mylifecheck(results) ==
    LET keys == <<"mylifecheck", "MyLifeCheck", "life8", "lifes_essential_8", "les8">>
        hits == SelectSeq(keys, LAMBDA k : k \in DOMAIN results /\ results[k].isdict)
    IN  IF hits = <<>> THEN <<>> ELSE <<results[hits[1]]>>

\* extract_prevent(calculator_results)
extract_prevent(results) ==
    LET keys == <<"prevent", "PREVENT">>
        hits == SelectSeq(keys, LAMBDA k : k \in DOMAIN results /\ results[k].isdict)
    IN  IF hits = <<>> THEN <<>> ELSE <<results[hits[1]]>>

\* ResolveEntry with registry[code] answered from the registry's first entry when the
\* code is unknown
ResolveEntryFirstDefault(registry, code, p) ==
    LET any   == CHOOSE k \in DOMAIN registry : TRUE
        block == Get(registry, code, registry[any])
    IN  [code |-> code, label |-> Get(block, "label", code),
         message |-> IF "default" \in DOMAIN block THEN block.default ELSE <<>>]

\* one resolved entry of a signatures block: registry.get(code, {"label": code, ...})
ResolveEntry(registry, code, p) ==
    LET block == Get(registry, code, [label |-> code, default |-> <<>>])
    IN  [code |-> code, label |-> Get(block, "label", code), message |-> _pick_message(block, p)]

\* one resolved security rule, with its severity
ResolveSecurityRule(code, p) ==
    LET block == Get(CONTENT_SECURITY_RULES, code, [label |-> code, message |-> <<>>])
    IN  [code |-> code, label |-> Get(block, "label", code),
         message |-> _pick_message(block, p), severity |-> Get(block, "severity", "unknown")]

\* one resolved action plan
ResolveActionPlan(code, p) ==
    LET block == Get(ACTION_PLANS, code, [label |-> code, message |-> <<>>])
    IN  [code |-> code, label |-> Get(block, "label", code), message |-> _pick_message(block, p)]

\* iterating tags["engagement_drivers"]: a dict yields its keys, whatever the values
DriverCodesOf(tags) == DictKeys(Get(tags, "engagement_drivers", <<>>))

\* PersonaResponse with the registry text first and the question's own response last
PersonaResponseRegistryFirst(responses, p, behavioral_core) ==
    IF behavioral_core[1].message # <<>> THEN behavioral_core[1].message
    ELSE IF Get(responses, p, <<>>) # <<>> THEN Get(responses, p, <<>>)
    ELSE <<"Start with one small step today and build gradually.">>

\* the persona response: the question's own, stripped; else the first core message;
\* else the last-resort sentence
PersonaResponse(responses, p, behavioral_core) ==
    LET own == strip(Get(responses, p, <<>>))
    IN  IF own # <<>> THEN own
        ELSE IF behavioral_core[1].message # <<>> THEN behavioral_core[1].message
        ELSE LastResortMessage

\* core_codes keeping the first code alone
CoreCodesFirstOnly(tags) ==
    LET core0 == Get(tags, "behavioral_core", <<>>)
    IN  IF core0 = <<>> THEN <<"GEN">> ELSE <<Head(core0)>>

\* core_codes of build_signatures_output: the tag list, ["GEN"] when it is missing or empty
CoreCodesOf(tags) ==
    LET core0 == Get(tags, "behavioral_core", <<>>)
    IN  IF core0 = <<>> THEN <<"GEN">> ELSE core0

\* the condition codes of the model in sorted (code point) order
SortedConditionCodes == <<"AF", "CD", "CKM", "CV", "HF", "HT">>

\* mod_codes put in sorted order, as sorted(set(...)) gives them
ModCodesSorted(tags) ==
    SelectSeq(SortedConditionCodes,
              LAMBDA c : c \in Range(Get(tags, "condition_modifiers", <<>>)))

\* mod_codes of build_signatures_output: the tag list as it stands
ModCodesOf(tags) == Get(tags, "condition_modifiers", <<>>)

\* build_signatures_output(question, persona, calculator_inputs, calculator_results)
build_signatures_output(q, p, results) ==
    IF ~HasAttr(q, "signatures_tags")
    THEN [done |-> TRUE, raised |-> "AttributeError"]
    ELSE
    LET tags       == q.attrs.signatures_tags
        core_codes == CoreCodesOf(tags)
        mod_codes  == ModCodesOf(tags)
        drv_codes  == DriverCodesOf(tags)
        behavioral_core ==
            [i \in DOMAIN core_codes |-> ResolveEntry(BEHAVIORAL_CORE_MESSAGES, core_codes[i], p)]
        condition_modifiers ==
            [i \in DOMAIN mod_codes |-> ResolveEntry(CONDITION_MODIFIER_MESSAGES, mod_codes[i], p)]
        engagement_drivers ==
            [i \in DOMAIN drv_codes |-> ResolveEntry(ENGAGEMENT_DRIVER_MESSAGES, drv_codes[i], p)]
        security_rules ==
            [i \in DOMAIN q.attrs.security_rule_codes |->
                ResolveSecurityRule(q.attrs.security_rule_codes[i], p)]
        action_plans ==
            [i \in DOMAIN q.attrs.action_plan_codes |->
                ResolveActionPlan(q.attrs.action_plan_codes[i], p)]
    IN  [done     |-> TRUE,
         raised   |-> "",
         persona  |-> p,
         question |-> [id |-> q.attrs.id, category |-> q.attrs.category, text |-> q.attrs.question],
         response |-> [message        |-> PersonaResponse(q.attrs.responses, p, behavioral_core),
                       action_step    |-> q.attrs.action_step,
                       why_it_matters |-> q.attrs.why],
         signatures |-> [behavioral_core     |-> behavioral_core,
                         condition_modifiers |-> condition_modifiers,
                         engagement_drivers  |-> engagement_drivers,
                         security_rules      |-> security_rules,
                         action_plans        |-> action_plans],
         scores  |-> [mylifecheck |-> extract_mylifecheck(results),
                      prevent     |-> extract_prevent(results)],
         sources |-> q.attrs.sources,
         results_available |-> DOMAIN results]

-----------------------------------------------------------------------------
(* signatures_engine.py: constants and registries *)

DRIVER_CODES == {"PR", "RC", "SE", "GO", "ID", "HL", "DS", "TR", "FI", "HI", "AX"}

\* the codes of the model that str.isupper() rejects (no cased character, or a lower-case one)
NotUpperCodes == {"", "42", "ckd"}

\* str.isupper() on a code
isupper(k) == k \notin NotUpperCodes

\* AHA_LINKS: a link is named by its key
AHA_LINKS == [k \in {"CKM", "BP", "HF", "CAD", "AF", "ST", "DM", "MYLIFECHECK", "FITNESS", "DASH"}
                |-> <<"AHA", k>>]

BEHAVIOR_CORE_CANONICAL ==
    [b \in {"PA", "BP", "NUT", "SL", "MA", "SY", "SM", "PC", "HL"} |-> <<"CORE", b>>]

\* the key (behavior, None) and the key (behavior, condition) of SECURITY_RULES
GenericKey(b)     == <<b>>
SpecificKey(b, c) == <<b, c>>

\* SECURITY_RULES as shipped
ShippedSecurityRules ==
    (GenericKey("PA") :> <<"SECURITY", "PA">>)
 @@ (SpecificKey("PA", "CD") :> <<"SECURITY", "PA", "CD">>)
 @@ (GenericKey("BP") :> <<"SECURITY", "BP">>)

\* SECURITY_RULES with one more condition-specific rule written the same way
ExtendedSecurityRules ==
    ShippedSecurityRules @@ (SpecificKey("PA", "HF") :> <<"SECURITY", "PA", "HF">>)

\* PersonaAnswer(text, action_step, why_it_matters)
PersonaAnswer(text, action_step, why) ==
    [text |-> text, action_step |-> action_step, why_it_matters |-> why]

\* a question of the shipped bank: all four personas answered
ShippedQuestion(qid, category, core, conditions, links) ==
    [qid |-> qid, category |-> category, question |-> <<qid, "question">>,
     behavioral_core |-> core, default_conditions |-> conditions,
     default_drivers |-> <<>>,
     answers |-> [p \in PERSONAS |->
                    PersonaAnswer(<<qid, p, "text">>, <<qid, p, "step">>, <<qid, p, "why">>)],
     links |-> links]

\* the part of the shipped bank the model carries
ShippedBank ==
    << <<"CKM-01", ShippedQuestion("CKM-01", "CKM", "PC", <<"CKM">>,
                                   <<AHA_LINKS["CKM"], AHA_LINKS["MYLIFECHECK"]>>)>>,
       <<"CKM-06", ShippedQuestion("CKM-06", "CKM", "PA", <<"CKM">>,
                                   <<AHA_LINKS["FITNESS"], AHA_LINKS["CKM"]>>)>>,
       <<"CKM-09", ShippedQuestion("CKM-09", "CKM", "HL", <<"CKM">>, <<AHA_LINKS["CKM"]>>)>>,
       <<"HBP-01", ShippedQuestion("HBP-01", "HighBP", "BP", <<"HT">>, <<AHA_LINKS["BP"]>>)>> >>

\* questions an author may _add: PreloadedQuestion validates nothing
AddedQuestions ==
    { [qid |-> "REHAB-01", category |-> "Rehab", question |-> <<"REHAB-01", "question">>,
       behavioral_core |-> "PA", default_conditions |-> <<"CD">>,
       default_drivers |-> << <<"SE", 1>> >>,
       answers |-> ("Listener" :> PersonaAnswer(<<" ", "REHAB-01", "Listener", "text">>,
                                                <<"REHAB-01", "Listener", "step">>,
                                                <<"REHAB-01", "Listener", "why">>))
                @@ ("Director" :> PersonaAnswer(<<>>, <<"REHAB-01", "Director", "step">>,
                                                <<"REHAB-01", "Director", "why">>)),
       links |-> <<AHA_LINKS["FITNESS"], AHA_LINKS["FITNESS"]>>],
      [qid |-> "REHAB-02", category |-> "Rehab", question |-> <<"REHAB-02", "question">>,
       behavioral_core |-> "PA", default_conditions |-> <<"HF">>,
       default_drivers |-> << <<"PR", 2>> >>,
       answers |-> [p \in PERSONAS |->
                      PersonaAnswer(<<"REHAB-02", p, "text">>, <<"REHAB-02", p, "step">>,
                                    <<"REHAB-02", p, "why">>)],
       links |-> <<>>] }

\* _add(q): QUESTION_BANK[q.qid] = q
_add(bank, q) == DictSet(bank, q.qid, q)

\* the ids of the engine's bank, character by character
Spelling ==
    ("CKM-01" :> <<"C", "K", "M", "-", "0", "1">>)
    @@ ("CKM-06" :> <<"C", "K", "M", "-", "0", "6">>)
    @@ ("CKM-09" :> <<"C", "K", "M", "-", "0", "9">>)
    @@ ("HBP-01" :> <<"H", "B", "P", "-", "0", "1">>)
    @@ ("REHAB-01" :> <<"R", "E", "H", "A", "B", "-", "0", "1">>)
    @@ ("REHAB-02" :> <<"R", "E", "H", "A", "B", "-", "0", "2">>)

\* get_question(bank, qid): bank.get(qid.strip()), for the characters typed
get_question(bank, typed) ==
    LET hit == SelectSeq(bank, LAMBDA kv : Spelling[kv[1]] = strip(typed))
    IN  IF hit # <<>> THEN <<hit[1][2]>> ELSE <<>>

\* normalize_codes, the loop over condition_modifiers: codes[c] = 1 if int(v) == 1 else 0
RECURSIVE NormalizeConditions(_, _)
NormalizeConditions(codes, conditions) ==
    IF conditions = <<>> THEN codes
    ELSE NormalizeConditions(
             DictSet(codes, Head(conditions)[1], IF Head(conditions)[2] = 1 THEN 1 ELSE 0),
             Tail(conditions))

\* normalize_codes, the loop over engagement_drivers: a value outside (-1, 0, 1) raises
RECURSIVE NormalizeDrivers(_, _)
NormalizeDrivers(codes, drivers) ==
    IF drivers = <<>> THEN [raised |-> "", codes |-> codes]
    ELSE IF Head(drivers)[2] \notin {-1, 0, 1} THEN [raised |-> "ValueError", codes |-> codes]
    ELSE NormalizeDrivers(DictSet(codes, Head(drivers)[1], Head(drivers)[2]), Tail(drivers))

\* normalize_codes(si)
normalize_codes(si) ==
    NormalizeDrivers(
        NormalizeConditions(DictSet(<<>>, si.behavioral_core, 1), si.condition_modifiers),
        si.engagement_drivers)

\* build_payload: active_conditions
ActiveConditions(codes, behavioral_core) ==
    DictKeys(SelectSeq(codes, LAMBDA kv : /\ kv[2] = 1
                                          /\ isupper(kv[1])
                                          /\ kv[1] \notin DRIVER_CODES
                                          /\ kv[1] # behavioral_core))

\* build_payload: active_drivers
ActiveDrivers(codes) ==
    DictKeys(SelectSeq(codes, LAMBDA kv : kv[1] \in DRIVER_CODES /\ kv[2] > 0))

\* SpecificRules stopping at the first active condition that has a rule
FirstSpecificRule(registry, b, active_conditions) ==
    LET hits == SelectSeq(active_conditions,
                          LAMBDA c : SpecificKey(b, c) \in DOMAIN registry)
    IN  IF hits = <<>> THEN <<>> ELSE <<registry[SpecificKey(b, hits[1])]>>

\* assemble_messages: the condition-specific rules of the active conditions, in order
SpecificRules(registry, b, active_conditions) ==
    LET hits == SelectSeq(active_conditions,
                          LAMBDA c : Get(registry, SpecificKey(b, c), <<>>) # <<>>)
    IN  [i \in DOMAIN hits |-> registry[SpecificKey(b, hits[i])]]

\* SecurityRulesFor with the generic rule appended whether or not a specific one was
SecurityRulesAdditive(registry, b, active_conditions) ==
    SpecificRules(registry, b, active_conditions)
    \o (IF GenericKey(b) \in DOMAIN registry THEN <<registry[GenericKey(b)]>> ELSE <<>>)

\* assemble_messages: security rules, "prefer condition-specific then generic"
SecurityRulesFor(registry, b, active_conditions) ==
    LET specific == SpecificRules(registry, b, active_conditions)
    IN  IF specific # <<>> THEN specific
        ELSE IF Get(registry, GenericKey(b), <<>>) # <<>> THEN <<registry[GenericKey(b)]>>
        ELSE <<>>

\* assemble_messages: the persona answer of the preloaded question, if there is one
PersonaOutput(p, pre) ==
    IF pre # <<>> /\ p \in DOMAIN pre[1].answers
    THEN << <<p, "response to:">> \o pre[1].question,
            pre[1].answers[p].text,
            <<>>,
            <<"Action Step:">> \o pre[1].answers[p].action_step,
            <<"Why it matters:">> \o pre[1].answers[p].why_it_matters >>
    ELSE <<>>

\* assemble_messages: the structural action-plan line
ActionPlansFor(p, pre) ==
    IF pre # <<>> /\ p \in DOMAIN pre[1].answers
    THEN << <<"ACTION:">> \o pre[1].answers[p].action_step >>
    ELSE <<>>

\* assemble_messages: the question's links, then the Life's Essential 8 link if absent
ContentLinksFor(p, pre) ==
    LET own == IF pre # <<>> /\ p \in DOMAIN pre[1].answers THEN pre[1].links ELSE <<>>
    IN  IF AHA_LINKS["MYLIFECHECK"] \in Range(own) THEN own
        ELSE Append(own, AHA_LINKS["MYLIFECHECK"])

\* assemble_messages(payload, preloaded): the payload with its message lists filled
assemble_messages(pl, pre, registry) ==
    [pl EXCEPT
        !.behavioral_core_messages =
            IF Get(BEHAVIOR_CORE_CANONICAL, pl.behavioral_core, <<>>) # <<>>
            THEN <<BEHAVIOR_CORE_CANONICAL[pl.behavioral_core]>> ELSE <<>>,
        !.persona_output = PersonaOutput(pl.persona, pre),
        !.action_plans   = ActionPlansFor(pl.persona, pre),
        !.content_links  = ContentLinksFor(pl.persona, pre),
        !.security_rules = SecurityRulesFor(registry, pl.behavioral_core, pl.active_conditions)]

-----------------------------------------------------------------------------
(* signatures_engine.py: the clinical scoring adapter.                      *)
(* A module attribute is [callable, raises, value]: a plain attribute holds *)
(* value; a callable returns value or raises.  A value is [type, v].         *)

PyNone == [type |-> "None", v |-> <<>>]
PyDictVal(v) == [type |-> "dict", v |-> v]
Attr(value) == [callable |-> FALSE, raises |-> FALSE, value |-> value]
Fn(value) == [callable |-> TRUE, raises |-> FALSE, value |-> value]
FnRaises == [callable |-> TRUE, raises |-> TRUE, value |-> PyNone]

\* the outcome of a call: raised (propagating) or a value
Returned(value) == [raised |-> FALSE, value |-> value]
Raised == [raised |-> TRUE, value |-> PyNone]

\* hasattr(calc_mod, name) and callable(getattr(calc_mod, name))
HasCallable(mod, name) == name \in DOMAIN mod /\ mod[name].callable

\* extract_clinical_inputs, the attribute loop: the first of INPUTS, inputs that is a dict
ClinicalFromAttrs(mod) ==
    SelectSeq(<<"INPUTS", "inputs">>,
              LAMBDA n : n \in DOMAIN mod /\ ~mod[n].callable /\ mod[n].value.type = "dict")

\* extract_clinical_inputs, the function loop: the first of get_inputs, get_latest_inputs
\* that returns a dict (an exception is swallowed)
ClinicalFromFns(mod) ==
    SelectSeq(<<"get_inputs", "get_latest_inputs">>,
              LAMBDA n : HasCallable(mod, n) /\ ~mod[n].raises /\ mod[n].value.type = "dict")

\* extract_clinical_inputs(calc_mod)
extract_clinical_inputs(mod) ==
    IF ClinicalFromAttrs(mod) # <<>> THEN mod[ClinicalFromAttrs(mod)[1]].value.v
    ELSE IF ClinicalFromFns(mod) # <<>> THEN mod[ClinicalFromFns(mod)[1]].value.v
    ELSE EmptyDict

\* _call_if_exists(calc_mod, fn_name, ...): the call is not guarded
_call_if_exists(mod, fn_name) ==
    IF HasCallable(mod, fn_name)
    THEN (IF mod[fn_name].raises THEN Raised ELSE Returned(mod[fn_name].value))
    ELSE Returned(PyNone)

\* run_mylifecheck / run_prevent: two unguarded names
RunEither(mod, first, second) ==
    LET r == _call_if_exists(mod, first)
    IN  IF r.raised THEN r
        ELSE IF r.value.type # "None" THEN r
        ELSE _call_if_exists(mod, second)

run_mylifecheck(mod) == RunEither(mod, "run_mylifecheck", "calculate_mylifecheck")
run_prevent(mod)     == RunEither(mod, "run_prevent", "calculate_prevent")

\* run_chads2vasc / run_cardiac_rehab / run_healthy_day_at_home: the unguarded run_*
\* name first; its result, or its exception, is the outcome unless it gave None
RunFirst(mod, first) ==
    LET r == _call_if_exists(mod, first)
    IN  IF r.raised \/ r.value.type # "None" THEN r ELSE Returned(PyNone)

\* ... then the legacy name, guarded by try/except: its result is wrapped in a dict,
\* its exception gives None
UseLegacy(mod, first, legacy) ==
    /\ ~_call_if_exists(mod, first).raised
    /\ _call_if_exists(mod, first).value.type = "None"
    /\ HasCallable(mod, legacy)
    /\ ~mod[legacy].raises

run_chads2vasc(mod) ==
    IF UseLegacy(mod, "run_chads2vasc", "calculate_chads2vasc")
    THEN Returned(PyDictVal(<<"chads2vasc", mod["calculate_chads2vasc"].value>>))
    ELSE RunFirst(mod, "run_chads2vasc")

run_cardiac_rehab(mod) ==
    IF UseLegacy(mod, "run_cardiac_rehab_eligibility", "calculate_cardiac_rehab_eligibility")
    THEN Returned(PyDictVal(<<"cardiac_rehab_eligible",
                              mod["calculate_cardiac_rehab_eligibility"].value>>))
    ELSE RunFirst(mod, "run_cardiac_rehab_eligibility")

run_healthy_day_at_home(mod) ==
    IF UseLegacy(mod, "run_healthy_day_at_home", "healthy_day_at_home")
    THEN LET x == mod["healthy_day_at_home"].value
         IN  Returned(IF x.type = "tuple2"
                      THEN PyDictVal(<<"healthy_day_score", "healthy_day_message", x>>)
                      ELSE PyDictVal(<<"healthy_day_at_home", x>>))
    ELSE RunFirst(mod, "run_healthy_day_at_home")

should_run_mylifecheck(behavior, codes) ==
    behavior \in {"PA", "BP", "NUT", "SL", "TOB", "PC"} \/ DictGet(codes, "CKM", 0) = 1

should_run_prevent(behavior, codes) ==
    \/ \E k \in {"HT", "CD", "CKD", "CKM", "DM"} : DictGet(codes, k, 0) = 1
    \/ behavior \in {"PA", "BP", "PC"}

should_run_chads2vasc(codes, clinical) ==
    \/ DictGet(codes, "AF", 0) = 1
    \/ Get(clinical, "atrial_fibrillation", "") \in {"yes", "y", "true", "1"}

should_run_cardiac_rehab(codes) == DictGet(codes, "CD", 0) = 1 \/ DictGet(codes, "HF", 0) = 1

should_run_healthy_day(codes) == TRUE

\* a measurement field that is computed whether requested or not
MeasureAlways(requested, outcome) == outcome

\* one measurement field: None unless requested; a raising call propagates
Measure(requested, outcome) == IF requested THEN outcome ELSE Returned(PyNone)

\* build_payload(sig, calc_mod, preloaded)
build_payload(si, mod, pre, registry) ==
    LET norm     == normalize_codes(si)
        codes    == norm.codes
        clinical == extract_clinical_inputs(mod)
        m1 == Measure(should_run_mylifecheck(si.behavioral_core, codes), run_mylifecheck(mod))
        m2 == Measure(should_run_prevent(si.behavioral_core, codes), run_prevent(mod))
        m3 == Measure(should_run_chads2vasc(codes, clinical), run_chads2vasc(mod))
        m4 == Measure(should_run_cardiac_rehab(codes), run_cardiac_rehab(mod))
        m5 == Measure(should_run_healthy_day(codes), run_healthy_day_at_home(mod))
        fresh == [done |-> TRUE, raised |-> "",
                  question |-> si.question, persona |-> si.persona, codes |-> codes,
                  behavioral_core |-> si.behavioral_core,
                  active_conditions |-> ActiveConditions(codes, si.behavioral_core),
                  active_drivers |-> ActiveDrivers(codes),
                  behavioral_core_messages |-> <<>>,
                  condition_modifier_messages |-> <<>>,
                  engagement_driver_messages |-> <<>>,
                  security_rules |-> <<>>, action_plans |-> <<>>, persona_output |-> <<>>,
                  measurement |-> [mylifecheck |-> m1.value, prevent |-> m2.value,
                                   chads2vasc |-> m3.value, cardiac_rehab |-> m4.value,
                                   healthy_day_at_home |-> m5.value],
                  content_links |-> <<>>]
    IN  IF norm.raised # "" THEN [done |-> TRUE, raised |-> norm.raised]
        ELSE IF m1.raised \/ m2.raised \/ m3.raised \/ m4.raised \/ m5.raised
        THEN [done |-> TRUE, raised |-> "CalculatorError"]
        ELSE assemble_messages(fresh, pre, registry)

\* the calculator modules tried: nothing exposed; INPUTS and every run_* name;
\* get_inputs and the legacy names; a first name returning None and a legacy name
\* raising; an unguarded name raising
CalcMods ==
    { EmptyDict,
      ("INPUTS" :> Attr(PyDictVal([atrial_fibrillation |-> "yes"])))
        @@ [n \in {"run_mylifecheck", "run_prevent", "run_chads2vasc",
                   "run_cardiac_rehab_eligibility", "run_healthy_day_at_home"}
              |-> Fn(PyDictVal(<<n>>))],
      ("get_inputs" :> Fn(PyDictVal([atrial_fibrillation |-> "no"])))
        @@ ("INPUTS" :> Attr(PyNone))
        @@ [n \in {"calculate_mylifecheck", "calculate_prevent", "calculate_chads2vasc",
                   "calculate_cardiac_rehab_eligibility"}
              |-> Fn(PyDictVal(<<n>>))]
        @@ ("healthy_day_at_home" :> Fn([type |-> "tuple2", v |-> <<"score", "note">>])),
      ("run_mylifecheck" :> Fn(PyNone))
        @@ ("calculate_mylifecheck" :> Fn(PyDictVal(<<"calculate_mylifecheck">>)))
        @@ ("get_inputs" :> FnRaises)
        @@ ("calculate_chads2vasc" :> FnRaises)
        @@ ("healthy_day_at_home" :> Fn([type |-> "float", v |-> <<"score">>])),
      ("run_prevent" :> FnRaises) }

-----------------------------------------------------------------------------
(* signatures_engine.py: prompt_signatures_input *)

\* condition_mods[c] = 1 for each code of a list
RECURSIVE SetAllToOne(_, _)
SetAllToOne(d, codes) ==
    IF codes = <<>> THEN d ELSE SetAllToOne(DictSet(d, Head(codes), 1), Tail(codes))

\* drivers[d] = v for each entered pair
RECURSIVE SetAll(_, _)
SetAll(d, pairs) ==
    IF pairs = <<>> THEN d ELSE SetAll(DictSet(d, Head(pairs)[1], Head(pairs)[2]), Tail(pairs))

\* prompt_signatures_input(): the SignaturesInput built from what the prompts returned.
\* chosen is the Optional[PreloadedQuestion] of prompt_choose_preloaded_question;
\* typed codes arrive stripped and upper-cased, driver values already checked.
prompt_signatures_input(p, chosen, custom_core, custom_conditions, extra_conditions, entered_drivers) ==
    LET base_conditions ==
            IF chosen # <<>> THEN SetAllToOne(<<>>, chosen[1].default_conditions)
            ELSE SetAllToOne(<<>>, custom_conditions)
        base_drivers == IF chosen # <<>> THEN chosen[1].default_drivers ELSE <<>>
    IN  [question        |-> IF chosen # <<>> THEN chosen[1].question ELSE <<"custom", "question">>,
         persona         |-> p,
         behavioral_core |-> IF chosen # <<>> THEN chosen[1].behavioral_core ELSE custom_core,
         condition_modifiers |-> SetAllToOne(base_conditions, extra_conditions),
         engagement_drivers  |-> SetAll(base_drivers, entered_drivers)]

\* what a user may type at the prompts
CustomCores      == {"PA", "BP", ""}
PromptConditions == {<<>>, <<"CD">>, <<"CD", "HF">>, <<"HF", "CD">>, <<"AF">>, <<"42", "HI">>}
PromptExtras     == {<<>>, <<"CD">>}
PromptDrivers    == { <<>>,
                      << <<"PR", 1>>, <<"HL", -1>>, <<"GO", 0>> >>,
                      << <<"HL", 1>> >>,
                      << <<"CD", -1>>, <<"PR", 0>> >> }

-----------------------------------------------------------------------------
(* SpecEngine: the bank is filled, main() imports the calculator, prompts   *)
(* and builds the payload.                                                  *)

InitEngine ==
    /\ QUESTION_BANK = ShippedBank
    /\ SECURITY_RULES \in {ShippedSecurityRules, ExtendedSecurityRules}
    /\ calc_mod = EmptyDict
    /\ pc = "import"
    /\ sig = EmptyDict
    /\ preloaded = <<>>
    /\ payload = NotCalled
    /\ asked_qid = <<>>
    /\ RulesIdle
    /\ LoaderIdle
    /\ ScriptsIdle

\* module import: one more _add(PreloadedQuestion(...))
AddQuestion ==
    /\ pc = "import"
    /\ \E q \in AddedQuestions :
          /\ ~DictHas(QUESTION_BANK, q.qid)
          /\ QUESTION_BANK' = _add(QUESTION_BANK, q)
    /\ UNCHANGED <<SECURITY_RULES, calc_mod, pc, sig, preloaded, payload, asked_qid, rulesVars, loaderVars, scriptVars>>

\* main(): import_module_from_path succeeded with some calculator module
ImportCalculator ==
    /\ pc = "import"
    /\ calc_mod' \in CalcMods
    /\ pc' = "prompt"
    /\ UNCHANGED <<QUESTION_BANK, SECURITY_RULES, sig, preloaded, payload, asked_qid, rulesVars, loaderVars, scriptVars>>

\* main(): import_module_from_path raised; main prints the error and returns 1
ImportFails ==
    /\ pc = "import"
    /\ pc' = "exit1"
    /\ UNCHANGED <<QUESTION_BANK, SECURITY_RULES, calc_mod, sig, preloaded, payload, asked_qid, rulesVars, loaderVars, scriptVars>>

\* what a user may type at "Enter question ID": an id as the list shows it,
\* between blanks, or in lower case
TypedIds ==
    UNION {{Spelling[k], <<" ">> \o Spelling[k] \o <<" ">>, lower(Spelling[k])} :
              k \in DOMAIN Spelling}

\* prompt_choose_preloaded_question, the loop: the id typed is not found and
\* the prompt asks again
QuestionNotFound ==
    /\ pc = "prompt"
    /\ \E typed \in TypedIds :
          /\ get_question(QUESTION_BANK, typed) = <<>>
          /\ asked_qid' = typed
    /\ UNCHANGED <<QUESTION_BANK, SECURITY_RULES, calc_mod, pc, sig, preloaded, payload,
                   rulesVars, loaderVars, scriptVars>>

\* prompt_signatures_input() with a preloaded question: the id typed is found
PromptPreloaded ==
    /\ pc = "prompt"
    /\ \E p \in PERSONAS, typed \in TypedIds,
          extra \in PromptExtras, drivers \in PromptDrivers :
          /\ get_question(QUESTION_BANK, typed) # <<>>
          /\ preloaded' = get_question(QUESTION_BANK, typed)
          /\ sig' = prompt_signatures_input(p, preloaded', "", <<>>, extra, drivers)
    /\ asked_qid' = <<>>
    /\ pc' = "build"
    /\ UNCHANGED <<QUESTION_BANK, SECURITY_RULES, calc_mod, payload, rulesVars, loaderVars, scriptVars>>

\* prompt_signatures_input() with a custom question
PromptCustom ==
    /\ pc = "prompt"
    /\ \E p \in PERSONAS, core \in CustomCores, conditions \in PromptConditions,
          extra \in PromptExtras, drivers \in PromptDrivers :
          /\ preloaded' = <<>>
          /\ sig' = prompt_signatures_input(p, <<>>, core, conditions, extra, drivers)
    /\ asked_qid' = <<>>
    /\ pc' = "build"
    /\ UNCHANGED <<QUESTION_BANK, SECURITY_RULES, calc_mod, payload, rulesVars, loaderVars, scriptVars>>

\* main(): payload = build_payload(sig, calc_mod, preloaded)
BuildPayload ==
    /\ pc = "build"
    /\ payload' = build_payload(sig, calc_mod, preloaded, SECURITY_RULES)
    /\ pc' = "done"
    /\ UNCHANGED <<QUESTION_BANK, SECURITY_RULES, calc_mod, sig, preloaded, asked_qid, rulesVars, loaderVars, scriptVars>>

NextEngine ==
    \/ AddQuestion
    \/ ImportCalculator
    \/ ImportFails
    \/ QuestionNotFound
    \/ PromptPreloaded
    \/ PromptCustom
    \/ BuildPayload

SpecEngine == InitEngine /\ [][NextEngine]_vars

-----------------------------------------------------------------------------
(* questions.py: helper utilities.                                          *)
(* A pack key, a driver key, a tag code and a keyword are strings of        *)
(* characters (the code changes their case and filters their characters);  *)
(* a raw value of unknown type is tagged: [type |-> "int", n |-> 5],        *)
(* [type |-> "str", text |-> ...], [type |-> "None"], ...                   *)

BANK_PERSONAS == <<"listener", "motivator", "director", "expert">>

PyStr(text)  == [type |-> "str", text |-> text]
PyInt(n)     == [type |-> "int", n |-> n]
PyBool(b)    == [type |-> "bool", b |-> b]
PyFloat10(n) == [type |-> "float", tenths |-> n]
PyList(xs)   == [type |-> "list", items |-> xs]
PyDictOf(d)  == [type |-> "dict", items |-> d]
PyNothing    == [type |-> "None"]

\* the value of a string of digits
RECURSIVE DigitsValue(_, _)
DigitsValue(t, acc) ==
    IF t = <<>> THEN acc ELSE DigitsValue(Tail(t), 10 * acc + DigitValue[Head(t)])

\* int(v): <<n>>, or <<>> when int() raises
IntOf(v) ==
    CASE v.type = "int"   -> <<v.n>>
      [] v.type = "bool"  -> <<IF v.b THEN 1 ELSE 0>>
      [] v.type = "float" -> <<IF v.tenths >= 0 THEN v.tenths \div 10 ELSE -((-v.tenths) \div 10)>>
      [] v.type = "str"   ->
            LET body   == strip(v.text)
                signed == body # <<>> /\ Head(body) \in {"-", "+"}
                digits == IF signed THEN Tail(body) ELSE body
            IN  IF digits # <<>> /\ \A i \in DOMAIN digits : digits[i] \in DOMAIN DigitValue
                THEN <<IF signed /\ Head(body) = "-"
                       THEN -DigitsValue(digits, 0) ELSE DigitsValue(digits, 0)>>
                ELSE <<>>
      [] OTHER -> <<>>

\* clamp_driver sending every value outside {-1, 0, 1} to 0
clamp_driver_to_zero(v) ==
    IF IntOf(v) # <<>> /\ IntOf(v)[1] \in {-1, 0, 1} THEN IntOf(v)[1] ELSE 0

\* clamp_driver without its two range tests: int(v), and 0 where int() raises
clamp_driver_unbounded(v) == IF IntOf(v) = <<>> THEN 0 ELSE IntOf(v)[1]

\* clamp_driver(v)
clamp_driver(v) ==
    LET iv == IntOf(v)
    IN  IF iv = <<>> THEN 0
        ELSE IF iv[1] < -1 THEN -1
        ELSE IF iv[1] > 1 THEN 1
        ELSE iv[1]

\* normalize_engagement_drivers, the loop: a key that is no str or is blank is skipped
RECURSIVE NormalizeDriverItems(_, _)
NormalizeDriverItems(acc, items) ==
    IF items = <<>> THEN acc
    ELSE LET k == Head(items)[1]
             v == Head(items)[2]
         IN  IF k.type # "str" \/ strip(k.text) = <<>>
             THEN NormalizeDriverItems(acc, Tail(items))
             ELSE NormalizeDriverItems(DictSet(acc, upper(strip(k.text)), clamp_driver(v)),
                                       Tail(items))

\* normalize_engagement_drivers(drivers)
normalize_engagement_drivers(drivers) ==
    IF drivers.type # "dict" THEN <<>> ELSE NormalizeDriverItems(<<>>, drivers.items)

\* the auto-fill texts of ensure_persona_responses
PlaceholderFor(p) ==
    IF p = "director" THEN <<"Here's a simple next step: ...">>
    ELSE IF p = "expert" THEN <<"Here's the evidence-based view: ...">>
    ELSE <<"I'm here with you. ...">>

\* ensure_persona_responses(responses): persona -> text, all four personas
ensure_persona_responses(responses) ==
    LET given == IF responses.type = "dict" THEN responses.items ELSE <<>>
    IN  [p \in Range(BANK_PERSONAS) |->
            LET text == DictGet(given, p, PyStr(<<>>))
            IN  IF text.type # "str" \/ strip(text.text) = <<>>
                THEN strip(PlaceholderFor(p))
                ELSE strip(text.text)]

\* ensure_list(x)
ensure_list(x) ==
    CASE x.type = "None" -> <<>>
      [] x.type = "list" ->
            LET kept == SelectSeq(x.items, LAMBDA i : strip(i) # <<>>)
            IN  [j \in DOMAIN kept |-> strip(kept[j])]
      [] x.type = "str" /\ strip(x.text) # <<>> -> <<strip(x.text)>>
      [] OTHER -> <<>>

\* slug_upper(s)
slug_upper(t) ==
    stripSet(SelectSeq(upper(t), LAMBDA ch : isalnum(ch) \/ ch \in {"_", "-"}), {"-", "_"})

\* the decimal digits of a natural number
RECURSIVE DecimalDigits(_)
DecimalDigits(n) ==
    LET d == CHOOSE c \in DOMAIN DigitValue : DigitValue[c] = n % 10
    IN  IF n < 10 THEN <<d>> ELSE Append(DecimalDigits(n \div 10), d)

\* f"{idx:02d}"
Format02d(n) == IF n < 10 THEN <<"0">> \o DecimalDigits(n) ELSE DecimalDigits(n)

\* build_id numbering from 0
build_id_from_zero(pack_code, idx) == pack_code \o <<"-">> \o Format02d(idx - 1)

\* build_id(pack_code, idx_1based)
build_id(pack_code, idx) == pack_code \o <<"-">> \o Format02d(idx)

\* str(v) for the values a text field is given
StrOf(v) == IF v.type = "str" THEN v.text
            ELSE IF v.type = "None" THEN <<"None">>
            ELSE <<"<repr>">>

\* bool(v)
Truthy(v) ==
    CASE v.type = "None" -> FALSE
      [] v.type = "str"  -> v.text # <<>>
      [] v.type = "list" -> v.items # <<>>
      [] v.type = "dict" -> v.items # <<>>
      [] v.type = "int"  -> v.n # 0
      [] v.type = "bool" -> v.b
      [] OTHER -> TRUE

\* for x in v: the members of a list, the characters of a str, the keys of a dict
Iterable(v) == v.type \in {"list", "str", "dict"}
IterItems(v) ==
    CASE v.type = "list" -> v.items
      [] v.type = "str"  -> [i \in DOMAIN v.text |-> <<v.text[i]>>]
      [] v.type = "dict" -> DictKeys(v.items)
      [] OTHER -> <<>>

\* [str(x).strip().upper() for x in (v or []) if str(x).strip()]
UpperCodes(v) ==
    LET kept == SelectSeq(IterItems(v), LAMBDA x : strip(x) # <<>>)
    IN  [j \in DOMAIN kept |-> upper(strip(kept[j]))]

\* [str(x).strip().lower() for x in (v or []) if str(x).strip()]
LowerWords(v) ==
    LET kept == SelectSeq(IterItems(v), LAMBDA x : strip(x) # <<>>)
    IN  [j \in DOMAIN kept |-> lower(strip(kept[j]))]

\* build_question_bank, the body of the inner loop: the item of one raw question
BankItem(qid, pack_code, category, source_defaults, q) ==
    LET question_text == strip(StrOf(DictGet(q.items, "question", PyStr(<<>>))))
        title0     == strip(StrOf(DictGet(q.items, "title", PyStr(question_text))))
        sig0       == DictGet(q.items, "signatures", PyDictOf(<<>>))
        signatures == IF sig0.type = "dict" THEN sig0.items ELSE <<>>
        drivers0   == DictGet(signatures, "engagement_drivers", PyNothing)
        sources0   == DictGet(q.items, "sources", source_defaults)
    IN  [id       |-> qid,
         category |-> IF strip(StrOf(category)) # <<>>
                      THEN upper(strip(StrOf(category))) ELSE pack_code,
         title    |-> IF title0 # <<>> THEN title0 ELSE question_text,
         question |-> question_text,
         keywords |-> LowerWords(DictGet(q.items, "keywords", PyNothing)),
         responses |-> ensure_persona_responses(DictGet(q.items, "responses", PyNothing)),
         signatures |->
            [behavioral_core |-> UpperCodes(DictGet(signatures, "behavioral_core", PyNothing)),
             condition_modifiers |-> UpperCodes(DictGet(signatures, "condition_modifiers", PyNothing)),
             engagement_drivers |->
                normalize_engagement_drivers(IF Truthy(drivers0) THEN drivers0 ELSE PyDictOf(<<>>))],
         security_rules |-> ensure_list(DictGet(q.items, "security_rules", PyNothing)),
         action_plans   |-> ensure_list(DictGet(q.items, "action_plans", PyNothing)),
         sources  |-> IF Truthy(sources0) THEN sources0 ELSE source_defaults]

\* what the body of the inner loop raises on the raw question q, "" if nothing
ItemRaises(q) ==
    IF q.type # "dict" THEN "AttributeError"
    ELSE LET sig0       == DictGet(q.items, "signatures", PyDictOf(<<>>))
             signatures == IF sig0.type = "dict" THEN sig0.items ELSE <<>>
             NotIterable(v) == Truthy(v) /\ ~Iterable(v)
         IN  IF \/ NotIterable(DictGet(signatures, "behavioral_core", PyNothing))
                \/ NotIterable(DictGet(signatures, "condition_modifiers", PyNothing))
                \/ NotIterable(DictGet(q.items, "keywords", PyNothing))
             THEN "TypeError" ELSE ""

\* build_question_bank, the inner loop: for i, q in enumerate(questions, start=1)
RECURSIVE BuildQuestions(_, _, _, _, _, _)
BuildQuestions(bank, pack_code, category, source_defaults, questions, i) ==
    IF i > Len(questions) THEN [raised |-> "", bank |-> bank]
    ELSE IF ItemRaises(questions[i]) # ""
         THEN [raised |-> ItemRaises(questions[i]), bank |-> bank]
         ELSE LET qid == build_id(pack_code, i)
              IN  BuildQuestions(
                      DictSet(bank, qid,
                              BankItem(qid, pack_code, category, source_defaults, questions[i])),
                      pack_code, category, source_defaults, questions, i + 1)

\* build_question_bank, the outer loop: for pack_code_raw, pack in packs.items()
RECURSIVE BuildPacks(_, _)
BuildPacks(bank, todo) ==
    IF todo = <<>> THEN [raised |-> "", bank |-> bank]
    ELSE LET pack_code_raw == Head(todo)[1]
             pack          == Head(todo)[2]
             pack_code     == IF slug_upper(pack_code_raw) # <<>>
                              THEN slug_upper(pack_code_raw) ELSE <<"P", "A", "C", "K">>
         IN  IF pack.type # "dict" THEN [raised |-> "AttributeError", bank |-> bank]
             ELSE LET category        == DictGet(pack.items, "category", PyStr(pack_code))
                      source_defaults == DictGet(pack.items, "source_defaults", PyList(<<>>))
                      questions       == DictGet(pack.items, "questions", PyList(<<>>))
                  IN  IF questions.type # "list" THEN BuildPacks(bank, Tail(todo))
                      ELSE LET built == BuildQuestions(bank, pack_code, category,
                                                       source_defaults, questions.items, 1)
                           IN  IF built.raised # "" THEN built
                               ELSE BuildPacks(built.bank, Tail(todo))

\* build_question_bank(packs)
build_question_bank(ps) == BuildPacks(<<>>, ps)

-----------------------------------------------------------------------------
(* SpecRules: build_signatures_output applied to one Question object.       *)

\* the personas a caller may pass (the four canonical ones and a stray one)
RulesPersonas == PERSONAS \cup {"Coach"}

\* behavioral_core tag lists: none, known codes, an unknown code, two codes
CoreLists == {<<>>, <<"PA">>, <<"NUT">>, <<"SLEEP">>, <<"HL", "GO">>}

\* condition_modifiers tag lists (CV has no registry entry)
ModLists == {<<>>, <<"CV", "CD">>}

\* engagement_drivers tags: code -> tri-state value (EX has no registry entry)
DriverDicts == { <<>>,
                 << <<"PR", 1>>, <<"HL", -1>>, <<"GO", 0>> >>,
                 << <<"HL", 1>>, <<"EX", 1>>, <<"TR", 0>> >> }

\* responses: persona -> text, for no persona, one persona or all four
ResponseDicts ==
    {EmptyDict}
    \cup UNION {{[p \in D |-> IF shape = 1 THEN <<>>
                              ELSE IF shape = 2 THEN <<" ">>
                              ELSE IF shape = 3 THEN <<"authored", p>>
                              ELSE <<" ", "authored", p, " ">>] : shape \in 1..4}
                : D \in {{"Director"}, PERSONAS}}

\* security_rule_codes lists
SecurityCodeLists == {<<>>, <<"HTN_CRISIS">>, <<"ZZZ-NOT-A-REAL-CODE", "MEDS_NO_STOP_WITHOUT_CLINICIAN">>}

\* action_plan_codes lists
ActionCodeLists == SeqUpTo({"DASH", "ZZZ-NOT-A-REAL-CODE"}, MaxCodes)

\* calculator results: key -> value, a value being a dict or not
CalculatorResults ==
    { EmptyDict,
      [MyLifeCheck |-> [isdict |-> TRUE, v |-> "le8"],
       life8       |-> [isdict |-> FALSE, v |-> "n/a"],
       PREVENT     |-> [isdict |-> TRUE, v |-> "risk"]] }

\* a Question as questions.py types it (Question = Dict[str, Any]): a dict, whose keys
\* are no attributes
DictQuestion ==
    PyDict([id |-> "X-01", category |-> "X", title |-> <<"text">>, question |-> <<"text">>,
            keywords |-> <<>>,
            responses |-> [p \in {"listener", "motivator", "director", "expert"} |-> <<"authored", p>>],
            signatures |-> [behavioral_core |-> <<"PA">>, condition_modifiers |-> <<>>,
                            engagement_drivers |-> <<>>],
            security_rules |-> <<>>, action_plans |-> <<>>, sources |-> <<>>])

\* the Question objects tried
RulesQuestions ==
    {DictQuestion} \cup
    { PyObject([id |-> "X-01", category |-> "X", question |-> <<"text">>,
                action_step |-> <<"step">>, why |-> <<"why">>,
                responses |-> r,
                signatures_tags |-> [behavioral_core     |-> c,
                                     condition_modifiers |-> m,
                                     engagement_drivers  |-> d],
                security_rule_codes |-> sr,
                action_plan_codes   |-> ap,
                sources |-> <<>>])
      : r \in ResponseDicts, c \in CoreLists, m \in ModLists, d \in DriverDicts,
        sr \in SecurityCodeLists, ap \in ActionCodeLists }

InitRules ==
    /\ question \in RulesQuestions
    /\ persona \in RulesPersonas
    /\ calculator_results \in CalculatorResults
    /\ out = NotCalled
    /\ EngineIdle
    /\ LoaderIdle
    /\ ScriptsIdle

\* a caller runs build_signatures_output on the question
BuildSignaturesOutput ==
    /\ out = NotCalled
    /\ out' = build_signatures_output(question, persona, calculator_results)
    /\ UNCHANGED <<question, persona, calculator_results, engineVars, loaderVars, scriptVars>>

NextRules == BuildSignaturesOutput

SpecRules == InitRules /\ [][NextRules]_vars


-----------------------------------------------------------------------------
(* SpecLoader: build_question_bank applied to PACKS at module import.       *)
(* The packs range over well-formed and malformed authoring: pack keys      *)
(* that slug to the same code, blank categories, question lists that are    *)
(* no lists, questions with missing or mistyped fields, and raw engagement  *)
(* driver dicts over every kind of key and value the normaliser tells apart.*)

\* most packs in PACKS
MaxPacks      == 2
\* most entries of a raw engagement_drivers dict
MaxRawDrivers == 2
\* raw int driver values range over -MaxRaw..MaxRaw
MaxRaw        == 2

\* raw keys: "pr" and " PR " are stored under the same key; a blank str and an
\* int are no keys
RawDriverKeys ==
    {PyStr(<<"p", "r">>), PyStr(<<" ", "P", "R", " ">>), PyStr(<<" ">>), PyInt(3)}

\* raw values: int, str (numeric or not), None, float (int() truncates to 1 and to 0)
RawDriverValues ==
    {PyInt(n) : n \in -MaxRaw..MaxRaw}
    \cup {PyStr(<<"x">>), PyStr(<<" ", "2", " ">>), PyNothing, PyFloat10(19), PyFloat10(-5)}

\* a raw engagement_drivers dict: its raw keys are distinct
RawDriverDicts ==
    {d \in SeqUpTo(RawDriverKeys \X RawDriverValues, MaxRawDrivers) :
        \A i, j \in DOMAIN d : i # j => d[i][1] # d[j][1]}

LowerResponses ==
    PyDictOf([i \in DOMAIN BANK_PERSONAS |->
                <<BANK_PERSONAS[i], PyStr(<<" ", "answer", BANK_PERSONAS[i]>>)>>])

Q_full ==
    PyDictOf(<< <<"question", PyStr(<<" ", "How", " ", "much?", " ">>)>>,
                <<"title", PyStr(<<"Activity">>)>>,
                <<"keywords", PyList(<< <<"B", "p">>, <<" ">> >>)>>,
                <<"responses", LowerResponses>>,
                <<"signatures",
                  PyDictOf(<< <<"behavioral_core", PyList(<< <<"p", "a">> >>)>>,
                              <<"condition_modifiers", PyList(<< <<"a", "b">>, <<" ">> >>)>>,
                              <<"engagement_drivers",
                                PyDictOf(<< <<PyStr(<<"p", "r">>), PyInt(1)>> >>)>> >>)>>,
                <<"security_rules", PyList(<< <<"rule-1">>, <<" ">> >>)>>,
                <<"action_plans", PyStr(<<" ", "DASH">>)>>,
                <<"sources", PyList(<<"AHA">>)>> >>)

Q_sparse ==
    PyDictOf(<< <<"question", PyStr(<<>>)>>,
                <<"responses",
                  PyDictOf(<< <<"Listener", PyStr(<<"capitalised key">>)>>,
                              <<"director", PyNothing>>,
                              <<"expert", PyStr(<<" ">>)>> >>)>>,
                <<"signatures", PyStr(<<"x">>)>>,
                <<"security_rules", PyStr(<<" ", "rule-2", " ">>)>>,
                <<"action_plans", PyNothing>> >>)

Q_stringtags ==
    PyDictOf(<< <<"question", PyStr(<<"What", " ", "now?">>)>>,
                <<"responses", PyList(<<>>)>>,
                <<"signatures",
                  PyDictOf(<< <<"behavioral_core", PyStr(<<"p", "a">>)>>,
                              <<"condition_modifiers",
                                PyDictOf(<< <<(<<"a", "b">>), PyInt(1)>> >>)>>,
                              <<"engagement_drivers", PyList(<< <<"p", "r">> >>)>> >>)>>,
                <<"sources", PyList(<<>>)>> >>)

Q_notdict == PyStr(<<"How", " ", "much?">>)

Q_badtag ==
    PyDictOf(<< <<"question", PyStr(<<"q">>)>>,
                <<"signatures", PyDictOf(<< <<"behavioral_core", PyInt(5)>> >>)>> >>)

\* a question whose raw engagement_drivers is d
Q_drivers(d) ==
    PyDictOf(<< <<"question", PyStr(<<"q">>)>>,
                <<"signatures", PyDictOf(<< <<"engagement_drivers", PyDictOf(d)>> >>)>> >>)

QuestionLists ==
    {PyList(<<>>), PyList(<<Q_full>>), PyList(<<Q_full, Q_sparse>>),
     PyList(<<Q_stringtags, Q_full>>), PyList(<<Q_notdict>>),
     PyList(<<Q_full, Q_badtag>>), PyNothing}

\* raw pack keys: "St" and "ST" and "s!t" slug to ST, "-_" slugs to "" (PACK)
PackKeys ==
    {<<"S", "t">>, <<"S", "T">>, <<"s", "!", "t">>, <<"A", "B">>, <<"-", "_">>}

\* the pack under a raw key: keys in lower case carry a blank category,
\* "AB" none, the others a category to normalise
PackOf(k, qs) ==
    LET cat == IF k = <<"A", "B">> THEN <<>>
               ELSE IF k = <<"s", "!", "t">> THEN << <<"category", PyStr(<<" ">>)>> >>
               ELSE << <<"category", PyStr(<<" ", "s", "t", "r", " ">>)>> >>
    IN  PyDictOf(cat \o << <<"source_defaults", PyList(<<"default-source">>)>>,
                           <<"questions", qs>> >>)

PackEntries == {<<k, PackOf(k, qs)>> : k \in PackKeys, qs \in QuestionLists}
               \cup {<<(<<"A", "B">>), PyNothing>>}

\* PACKS: a dict, so its raw keys are distinct
PackDicts ==
    {ps \in SeqUpTo(PackEntries, MaxPacks) :
        \A i, j \in DOMAIN ps : i # j => ps[i][1] # ps[j][1]}

\* PACKS of one pack of one question, over every raw engagement_drivers dict
DriverPacks ==
    {<< <<(<<"A", "B">>), PackOf(<<"A", "B">>, PyList(<<Q_drivers(d)>>))>> >> :
        d \in RawDriverDicts}

InitLoader ==
    /\ packs \in PackDicts \cup DriverPacks
    /\ question_bank = <<>>
    /\ loaded = "init"
    /\ ret = [op |-> "none"]
    /\ RulesIdle
    /\ EngineIdle
    /\ ScriptsIdle

\* module import: QUESTION_BANK = build_question_bank(PACKS)
BuildQuestionBank ==
    /\ loaded = "init"
    /\ LET built == build_question_bank(packs)
       IN  IF built.raised = ""
           THEN question_bank' = built.bank /\ loaded' = "built"
           ELSE question_bank' = question_bank /\ loaded' = "raised"
    /\ UNCHANGED <<packs, ret, rulesVars, engineVars, scriptVars>>

NextLoader == BuildQuestionBank

SpecLoader == InitLoader /\ [][NextLoader]_vars


-----------------------------------------------------------------------------
(* SpecBank: the bank built at import and the calls made on it afterwards:  *)
(* autofix_question_bank, validate_question_bank, get_question_by_id and    *)
(* search_questions.  The texts of these packs are strings of characters,   *)
(* since the search lower-cases them and looks for substrings.              *)

\* a stored responses dict and a stored engagement_drivers dict as the Python
\* values they are, for the normalisers that take Any
TaggedResponses(r) ==
    PyDictOf([i \in DOMAIN BANK_PERSONAS |-> <<BANK_PERSONAS[i], PyStr(r[BANK_PERSONAS[i]])>>])
TaggedDrivers(d) == PyDictOf([i \in DOMAIN d |-> <<PyStr(d[i][1]), PyInt(d[i][2])>>])

\* an autofix that fills the responses in afresh, whatever the item holds
AutofixItemAfresh(q) ==
    [q EXCEPT !.responses  = ensure_persona_responses(PyNothing),
              !.signatures = [q.signatures EXCEPT !.engagement_drivers =
                    normalize_engagement_drivers(TaggedDrivers(q.signatures.engagement_drivers))]]

\* autofix_question_bank, the loop body on one item of a built bank: its
\* security_rules and action_plans are lists already, its signatures a dict
AutofixItem(q) ==
    [q EXCEPT !.responses  = ensure_persona_responses(TaggedResponses(q.responses)),
              !.signatures = [q.signatures EXCEPT !.engagement_drivers =
                    normalize_engagement_drivers(TaggedDrivers(q.signatures.engagement_drivers))]]

\* autofix_question_bank(question_bank): the bank as the call leaves it
autofix_question_bank(bank) ==
    [i \in DOMAIN bank |-> <<bank[i][1], AutofixItem(bank[i][2])>>]

\* an item of a built bank as the Python dict it is, with the keys
\* validate_question_bank reads
TaggedItem(q) ==
    PyDictOf(<< <<"question", PyStr(q.question)>>,
                <<"responses", TaggedResponses(q.responses)>>,
                <<"signatures",
                  PyDictOf(<< <<"engagement_drivers",
                                TaggedDrivers(q.signatures.engagement_drivers)>> >>)>>,
                <<"security_rules", PyList(q.security_rules)>>,
                <<"action_plans", PyList(q.action_plans)>> >>)
TaggedBank(bank) == [i \in DOMAIN bank |-> <<bank[i][1], TaggedItem(bank[i][2])>>]

\* BankIssue(level, qid, message): the names a message lists are its detail
BankIssue(level, qid, message, detail) ==
    [level |-> level, qid |-> qid, message |-> message, detail |-> detail]

\* the engagement_drivers validate_question_bank looks at: a dict under a dict
\* signatures, else nothing
ValidatedDrivers(q) ==
    LET sigs == DictGet(q.items, "signatures", PyDictOf(<<>>))
        ed  == IF sigs.type = "dict"
               THEN DictGet(sigs.items, "engagement_drivers", PyDictOf(<<>>)) ELSE PyNothing
    IN  IF ed.type = "dict" THEN ed.items ELSE <<>>

\* the keys whose value is an int outside (-1, 0, 1); True and False are 1 and 0
OutOfRangeKeys(ed) ==
    LET bad == SelectSeq(ed, LAMBDA kv : kv[2].type = "int" /\ kv[2].n \notin {-1, 0, 1})
    IN  [j \in DOMAIN bad |-> bad[j][1]]

\* what the loop body of validate_question_bank raises on item q, "" if nothing:
\* q.get on a non-dict; int(v) in bad_vals, evaluated before its isinstance
\* filter; ', '.join(out_of_range) on a key that is no str
ValidateRaises(q) ==
    IF q.type # "dict" THEN "AttributeError"
    ELSE LET ed      == ValidatedDrivers(q)
             failing == SelectSeq(ed, LAMBDA kv : IntOf(kv[2]) = <<>>)
         IN  IF failing # <<>>
             THEN (IF failing[1][2].type = "str" THEN "ValueError" ELSE "TypeError")
             ELSE IF \E j \in DOMAIN OutOfRangeKeys(ed) : OutOfRangeKeys(ed)[j].type # "str"
                  THEN "TypeError" ELSE ""

\* validate_question_bank, the loop body: the issues of item q
ItemIssues(qid, q) ==
    LET resp    == DictGet(q.items, "responses", PyDictOf(<<>>))
        missing == SelectSeq(BANK_PERSONAS,
                             LAMBDA p : resp.type # "dict"
                                        \/ ~Truthy(DictGet(resp.items, p, PyNothing)))
        sigs     == DictGet(q.items, "signatures", PyDictOf(<<>>))
        ranged  == OutOfRangeKeys(ValidatedDrivers(q))
    IN  (IF ~Truthy(DictGet(q.items, "question", PyNothing))
         THEN <<BankIssue("error", qid, "missing 'question' text", <<>>)>> ELSE <<>>)
        \o (IF missing # <<>>
            THEN <<BankIssue("warn", qid, "missing persona responses", missing)>> ELSE <<>>)
        \o (IF sigs.type # "dict"
            THEN <<BankIssue("warn", qid, "signatures is not a dict", <<>>)>>
            ELSE IF ranged # <<>>
                 THEN <<BankIssue("warn", qid, "engagement_drivers values not in -1/0/1",
                                  [j \in DOMAIN ranged |-> ranged[j].text])>>
                 ELSE <<>>)
        \o (IF ~DictHas(q.items, "security_rules")
            THEN <<BankIssue("warn", qid, "missing security_rules", <<>>)>> ELSE <<>>)
        \o (IF ~DictHas(q.items, "action_plans")
            THEN <<BankIssue("warn", qid, "missing action_plans", <<>>)>> ELSE <<>>)

\* validate_question_bank, the loop: for qid, q in question_bank.items()
RECURSIVE ValidateItems(_, _)
ValidateItems(issues, todo) ==
    IF todo = <<>> THEN [raised |-> "", issues |-> issues]
    ELSE IF ValidateRaises(Head(todo)[2]) # ""
         THEN [raised |-> ValidateRaises(Head(todo)[2]), issues |-> issues]
         ELSE ValidateItems(issues \o ItemIssues(Head(todo)[1], Head(todo)[2]), Tail(todo))

\* validate_question_bank(question_bank, raise_on_error)
validate_question_bank(bank, raise_on_error) ==
    LET checked == ValidateItems(<<>>, bank)
    IN  IF checked.raised = "" /\ raise_on_error
           /\ \E j \in DOMAIN checked.issues : checked.issues[j].level = "error"
        THEN [raised |-> "ValueError", issues |-> checked.issues]
        ELSE checked

\* sep.join(parts)
RECURSIVE Join(_, _)
Join(parts, sep) ==
    IF parts = <<>> THEN <<>>
    ELSE IF Len(parts) = 1 THEN parts[1]
    ELSE parts[1] \o sep \o Join(Tail(parts), sep)

\* q in hay, for a q that is not empty
Contains(hay, q) == \E i \in 1..(Len(hay) - Len(q) + 1) : SubSeq(hay, i, i + Len(q) - 1) = q

\* hay.count(q): the occurrences of q in hay that do not overlap, from the left
RECURSIVE Count(_, _)
Count(hay, q) ==
    IF Len(hay) < Len(q) THEN 0
    ELSE IF SubSeq(hay, 1, Len(q)) = q
         THEN 1 + Count(SubSeq(hay, Len(q) + 1, Len(hay)), q)
         ELSE Count(Tail(hay), q)

\* the characters of the ids, in the order of their code points
CodePointOrder ==
    <<"-", "0", "1", "2", "3", "4", "5", "6", "7", "8", "9",
      "A", "B", "C", "E", "G", "H", "K", "M", "O", "P", "R", "S", "T", "_">>
CodePoint(c) == CHOOSE i \in DOMAIN CodePointOrder : CodePointOrder[i] = c

\* a < b on str
RECURSIVE StrLess(_, _)
StrLess(a, b) ==
    IF a = <<>> THEN b # <<>>
    ELSE IF b = <<>> THEN FALSE
    ELSE IF Head(a) = Head(b) THEN StrLess(Tail(a), Tail(b))
    ELSE CodePoint(Head(a)) < CodePoint(Head(b))

\* the sort key of search_questions compared by its score alone
HitBeforeByScore(h, e) == h.score > e.score

\* key(h) < key(e) for the key (-score, qid) of hits.sort
HitBefore(h, e) == h.score > e.score \/ (h.score = e.score /\ StrLess(h.qid, e.qid))

\* hits.sort(key=...): a stable sort, each hit goes before the first one it is less than
RECURSIVE InsertHit(_, _)
InsertHit(sorted, h) ==
    IF sorted = <<>> THEN <<h>>
    ELSE IF HitBefore(h, Head(sorted)) THEN <<h>> \o sorted
    ELSE <<Head(sorted)>> \o InsertHit(Tail(sorted), h)
RECURSIVE SortHits(_, _)
SortHits(sorted, hits) ==
    IF hits = <<>> THEN sorted ELSE SortHits(InsertHit(sorted, Head(hits)), Tail(hits))

\* cat of search_questions and list_question_summaries: None is <<>>
CategoryFilter(category) ==
    IF category.type = "str" /\ strip(category.text) # <<>>
    THEN <<upper(strip(category.text))>> ELSE <<>>

\* a hay that also holds the four persona responses
HaystackWithResponses(item) ==
    lower(Join(<<item.title,
                 item.question,
                 Join(item.keywords, <<" ">>),
                 Join(item.signatures.behavioral_core, <<" ">>),
                 Join(item.signatures.condition_modifiers, <<" ">>),
                 Join(DictKeys(item.signatures.engagement_drivers), <<" ">>),
                 Join([i \in DOMAIN BANK_PERSONAS |-> item.responses[BANK_PERSONAS[i]]],
                      <<" ">>)>>, <<" ">>))

\* hay of search_questions: title, question, keywords and signature codes, not the responses
Haystack(item) ==
    lower(Join(<<item.title,
                 item.question,
                 Join(item.keywords, <<" ">>),
                 Join(item.signatures.behavioral_core, <<" ">>),
                 Join(item.signatures.condition_modifiers, <<" ">>),
                 Join(DictKeys(item.signatures.engagement_drivers), <<" ">>)>>, <<" ">>))

\* search_questions, the loop: for qid, item in question_bank.items()
RECURSIVE SearchHits(_, _, _, _)
SearchHits(hits, todo, q, cat) ==
    IF todo = <<>> THEN hits
    ELSE LET qid  == Head(todo)[1]
             item == Head(todo)[2]
         IN  IF cat # <<>> /\ upper(strip(item.category)) # cat[1]
             THEN SearchHits(hits, Tail(todo), q, cat)
             ELSE IF Contains(Haystack(item), q)
                  THEN SearchHits(Append(hits, [score |-> Count(Haystack(item), q),
                                                qid |-> qid, item |-> item]),
                                  Tail(todo), q, cat)
                  ELSE SearchHits(hits, Tail(todo), q, cat)

\* search_questions(question_bank, query, category, limit), limit an int
search_questions(bank, query, category, limit) ==
    IF query.type # "str" \/ strip(query.text) = <<>> THEN <<>>
    ELSE LET hits == SortHits(<<>>, SearchHits(<<>>, bank, lower(strip(query.text)),
                                               CategoryFilter(category)))
             most == IF limit < 1 THEN 1 ELSE limit
             kept == SubSeq(hits, 1, IF Len(hits) < most THEN Len(hits) ELSE most)
         IN  [j \in DOMAIN kept |-> [id |-> kept[j].qid,
                                     category |-> kept[j].item.category,
                                     question |-> kept[j].item.question]]

\* get_question_by_id(question_bank, qid): None is <<>>
get_question_by_id(bank, qid) ==
    IF qid.type # "str" \/ strip(qid.text) = <<>> THEN <<>>
    ELSE IF DictHas(bank, upper(strip(qid.text)))
         THEN <<DictGet(bank, upper(strip(qid.text)), <<>>)>> ELSE <<>>

\* most packs in the PACKS of SpecBank
MaxBankPacks == 2

GoTo == <<"G", "o", " ", "T", "o">>
goto == <<"g", "o", " ", "t", "o">>

\* authored answers under the four lower-case persona keys
AuthoredResponses(text) ==
    PyDictOf([i \in DOMAIN BANK_PERSONAS |-> <<BANK_PERSONAS[i], PyStr(text)>>])

\* the same without the expert
NoExpertResponses(text) ==
    PyDictOf([i \in 1..3 |-> <<BANK_PERSONAS[i], PyStr(text)>>])

\* a raw question of title, question text, keywords, responses and raw drivers
RawQuestion(title, text, keywords, responses, drivers) ==
    PyDictOf(<< <<"title", PyStr(title)>>,
                <<"question", PyStr(text)>>,
                <<"keywords", PyList(keywords)>>,
                <<"responses", responses>>,
                <<"signatures",
                  PyDictOf(<< <<"behavioral_core", PyList(<< <<"p", "a">> >>)>>,
                              <<"engagement_drivers", PyDictOf(drivers)>> >>)>>,
                <<"security_rules", PyList(<< <<"rule-1">> >>)>>,
                <<"action_plans", PyList(<< <<"DASH">> >>)>> >>)

\* "Go To" is the question text
Q_whole ==
    RawQuestion(<<"S", "p", "a">>, GoTo, <<>>, AuthoredResponses(<<"b", "a", "r">>),
                << <<PyStr(<<"p", "r">>), PyInt(5)>>, <<PyStr(<<"t", "r">>), PyInt(-3)>> >>)
\* both words of "go to", never the two in a row; no expert answer
Q_tokens ==
    RawQuestion(<<"b", "a", "r">>, <<"t", "o", " ", "g", "o">>, <<>>,
                NoExpertResponses(<<"b", "a", "r">>),
                << <<PyStr(<<"p", "r">>), PyStr(<<"x">>)>> >>)
\* "go to" in the title and in the question text
Q_twice ==
    RawQuestion(goto, <<"s", "o", " ">> \o goto, <<>>, AuthoredResponses(<<"b", "a", "r">>),
                << <<PyStr(<<"p", "r">>), PyInt(1)>> >>)
\* "go to" in the persona answers only
Q_persona ==
    RawQuestion(<<"p", "o", "t">>, <<"s", "t", "o", "p">>, <<>>, AuthoredResponses(goto), <<>>)
\* "GO TO" is a keyword
Q_keyword ==
    RawQuestion(<<"p", "o", "t">>, <<"b", "a", "r">>, << <<"G", "O", " ", "T", "O">> >>,
                AuthoredResponses(<<"b", "a", "r">>), <<>>)

BankQuestionLists ==
    {PyList(<<Q_whole>>), PyList(<<Q_tokens, Q_twice>>), PyList(<<Q_persona, Q_whole>>),
     PyList(<<Q_keyword>>)}

\* raw pack keys: their codes are ST, AB and GO
BankPackKeys == {<<"S", "t">>, <<"A", "B">>, <<"g", "o">>}

BankPackEntries == {<<k, PackOf(k, qs)>> : k \in BankPackKeys, qs \in BankQuestionLists}

BankPackDicts ==
    {ps \in SeqUpTo(BankPackEntries, MaxBankPacks) :
        \A i, j \in DOMAIN ps : i # j => ps[i][1] # ps[j][1]}

\* PACKS of one pack of one question, over every one-entry raw engagement_drivers dict
BankDriverPacks ==
    {<< <<(<<"A", "B">>), PackOf(<<"A", "B">>, PyList(<<Q_drivers(<<kv>>)>>))>> >> :
        kv \in RawDriverKeys \X RawDriverValues}

InitBank ==
    /\ packs \in BankPackDicts \cup BankDriverPacks
    /\ question_bank = <<>>
    /\ loaded = "init"
    /\ ret = [op |-> "none"]
    /\ RulesIdle
    /\ EngineIdle
    /\ ScriptsIdle

\* an item of a bank that was written by hand, not loaded: a Python dict
HandItem(text, responses, drivers) ==
    PyDictOf(<< <<"question", PyStr(text)>>,
                <<"responses", responses>>,
                <<"signatures", PyDictOf(<< <<"engagement_drivers", PyDictOf(drivers)>> >>)>>,
                <<"security_rules", PyList(<<>>)>>,
                <<"action_plans", PyList(<<>>)>> >>)

\* hand-written banks of one item: well-formed; a driver that is no number
\* (a str, None); an int driver out of range, under a str key and under an
\* int key; no expert answer; no question text; an item that is no dict
HandItems ==
    {HandItem(<<"q">>, AuthoredResponses(<<"b", "a", "r">>), << <<PyStr(<<"P", "R">>), PyInt(1)>> >>),
     HandItem(<<"q">>, AuthoredResponses(<<"b", "a", "r">>), << <<PyStr(<<"P", "R">>), PyStr(<<"x">>)>> >>),
     HandItem(<<"q">>, AuthoredResponses(<<"b", "a", "r">>), << <<PyStr(<<"P", "R">>), PyNothing>> >>),
     HandItem(<<"q">>, AuthoredResponses(<<"b", "a", "r">>), << <<PyStr(<<"P", "R">>), PyInt(5)>> >>),
     HandItem(<<"q">>, AuthoredResponses(<<"b", "a", "r">>), << <<PyInt(3), PyInt(5)>> >>),
     HandItem(<<"q">>, NoExpertResponses(<<"b", "a", "r">>), <<>>),
     HandItem(<<>>, AuthoredResponses(<<"b", "a", "r">>), <<>>),
     PyStr(<<"q">>)}
HandBanks == {<< <<(<<"A", "B", "-", "0", "1">>), q>> >> : q \in HandItems}

\* ret records one reading call (validate, get, search) of a run: what such a
\* call returns depends on the bank and its arguments only, so the call is
\* taken once, on the bank as imported or as autofix left it
NoCallYet == ret.op \in {"none", "autofix"}

\* validate_question_bank runs on QUESTION_BANK (as at import, line 2984) or
\* on a hand-written bank
ValidateQuestionBank ==
    /\ loaded = "built"
    /\ NoCallYet
    /\ \E raise_on_error \in BOOLEAN :
       \E on \in {"QUESTION_BANK", "other"} :
       \E bank \in IF on = "QUESTION_BANK" THEN {TaggedBank(question_bank)} ELSE HandBanks :
          LET v == validate_question_bank(bank, raise_on_error)
          IN  ret' = [op |-> "validate", on |-> on, bank |-> bank,
                      raise_on_error |-> raise_on_error,
                      raised |-> v.raised, issues |-> v.issues]
    /\ UNCHANGED <<packs, question_bank, loaded, rulesVars, engineVars, scriptVars>>

\* the queries of a search: "go to" as typed, in capitals between blanks,
\* one word of it, a tag, text of the answers, blank, no str
Queries ==
    {PyStr(goto), PyStr(<<" ", "G", "O", " ", "T", "O", " ">>), PyStr(<<"g", "o">>),
     PyStr(<<"p", "a">>), PyStr(<<"b", "a", "r">>), PyStr(<<" ">>), PyNothing}
Categories == {PyNothing, PyStr(<<" ", "s", "t", "r", " ">>)}
Limits == {0, 1, 2, 20}

\* a caller runs search_questions(QUESTION_BANK, query, category, limit)
SearchQuestions ==
    /\ loaded = "built"
    /\ NoCallYet
    /\ \E query \in Queries, category \in Categories, limit \in Limits :
          ret' = [op |-> "search", query |-> query, category |-> category, limit |-> limit,
                  hits |-> search_questions(question_bank, query, category, limit)]
    /\ UNCHANGED <<packs, question_bank, loaded, rulesVars, engineVars, scriptVars>>

\* the ids a caller may ask for: each id of the bank as it is, in lower case,
\* with a lower-case first letter between blanks; an id no bank holds; a
\* blank; a value that is no str
AskedIds(bank) ==
    UNION {{PyStr(bank[i][1]), PyStr(lower(bank[i][1])),
            PyStr(<<" ", LowerChar(Head(bank[i][1]))>> \o Tail(bank[i][1]) \o <<" ">>)} :
              i \in DOMAIN bank}
    \cup {PyStr(<<"A", "B", "-", "9", "9">>), PyStr(<<" ">>), PyInt(1)}

\* a caller runs get_question_by_id(QUESTION_BANK, qid)
GetQuestionById ==
    /\ loaded = "built"
    /\ NoCallYet
    /\ \E asked \in AskedIds(question_bank) :
          ret' = [op |-> "get", qid |-> asked,
                  found |-> get_question_by_id(question_bank, asked)]
    /\ UNCHANGED <<packs, question_bank, loaded, rulesVars, engineVars, scriptVars>>

\* a caller runs autofix_question_bank(QUESTION_BANK)
AutofixQuestionBank ==
    /\ loaded = "built"
    /\ question_bank' = autofix_question_bank(question_bank)
    /\ ret' = [op |-> "autofix", fixes |-> <<>>]
    /\ UNCHANGED <<packs, loaded, rulesVars, engineVars, scriptVars>>

NextBank ==
    \/ BuildQuestionBank
    \/ AutofixQuestionBank
    \/ ValidateQuestionBank
    \/ SearchQuestions
    \/ GetQuestionById

SpecBank == InitBank /\ [][NextBank]_vars

-----------------------------------------------------------------------------
(* signatures_engine.py: the prompts of prompt_signatures_input, one input  *)
(* line at a time (specification SpecPrompt).  What the user types is a     *)
(* string of characters.                                                    *)

PERSONA_CHOICES ==
    ("1" :> "Listener") @@ ("2" :> "Motivator") @@ ("3" :> "Director") @@ ("4" :> "Expert")
    @@ ("L" :> "Listener") @@ ("M" :> "Motivator") @@ ("D" :> "Director") @@ ("E" :> "Expert")

\* raw in PERSONA_CHOICES, for raw = input(...).strip().upper(): <<persona>> or <<>>
PersonaChoice(typed) ==
    LET raw == upper(strip(typed))
    IN  IF Len(raw) = 1 /\ raw[1] \in DOMAIN PERSONA_CHOICES
        THEN <<PERSONA_CHOICES[raw[1]]>> ELSE <<>>

\* the characters of a PreloadedQuestion's category
CategorySpelling ==
    ("CKM" :> <<"C", "K", "M">>)
    @@ ("HighBP" :> <<"H", "i", "g", "h", "B", "P">>)
    @@ ("Rehab" :> <<"R", "e", "h", "a", "b">>)

\* items.sort(key=lambda x: x.qid)
RECURSIVE InsertByQid(_, _)
InsertByQid(sorted, q) ==
    IF sorted = <<>> THEN <<q>>
    ELSE IF StrLess(Spelling[q.qid], Spelling[Head(sorted).qid]) THEN <<q>> \o sorted
    ELSE <<Head(sorted)>> \o InsertByQid(Tail(sorted), q)
RECURSIVE SortByQid(_, _)
SortByQid(sorted, items) ==
    IF items = <<>> THEN sorted ELSE SortByQid(InsertByQid(sorted, Head(items)), Tail(items))

\* list_questions(bank, category): category is the text typed, "" is None
list_questions(bank, category) ==
    LET items == SortByQid(<<>>, [i \in DOMAIN bank |-> bank[i][2]])
    IN  IF category # <<>>
        THEN SelectSeq(items, LAMBDA q : lower(CategorySpelling[q.category]) = lower(category))
        ELSE items

\* the driver-value loop taking every integer typed
DriverValueWarningNoRange(typed) ==
    LET raw == strip(typed)
    IN  IF raw = <<>> THEN "Please enter -1, 0, or 1."
        ELSE IF IntOf(PyStr(raw)) = <<>> THEN "Invalid. Enter -1, 0, or 1."
        ELSE ""

\* the driver-value loop on one line typed: the warning printed, "" when the
\* value is taken
DriverValueWarning(typed) ==
    LET raw == strip(typed)
    IN  IF raw = <<>> THEN "Please enter -1, 0, or 1."
        ELSE IF IntOf(PyStr(raw)) = <<>> THEN "Invalid. Enter -1, 0, or 1."
        ELSE IF IntOf(PyStr(raw))[1] \notin {-1, 0, 1} THEN "Must be -1, 0, or 1."
        ELSE ""

\* what a user may type at the prompts
TypedPersonas  == {<<"1">>, <<" ", "m", " ">>, <<>>, <<"5">>, <<"L", "M">>, <<"y">>}
TypedYesNo     == {<<" ", "Y">>, <<>>, <<"n">>}
TypedCategories == {<<>>, <<"C", "K", "M">>, <<"h", "i", "g", "h", "b", "p", " ">>}
TypedDriverCodes == {"", "PR", "HL"}
TypedValues    == {<<>>, <<"-", "1">>, <<" ", "0", " ">>, <<"+", "1">>,
                   <<"2">>, <<"-", "2">>, <<"a">>, <<"1", ".", "0">>}

\* the locals of prompt_signatures_input at its first prompt
PromptStart ==
    [at |-> "persona", raw |-> <<>>, warning |-> "", persona |-> <<>>, cat |-> <<>>,
     listed |-> <<>>, chosen |-> <<>>, core |-> "", conditions |-> <<>>,
     extra |-> <<>>, code |-> "", drivers |-> <<>>]

InitPrompt ==
    /\ QUESTION_BANK = ShippedBank
    /\ SECURITY_RULES = ShippedSecurityRules
    /\ calc_mod = EmptyDict
    /\ pc = "prompt"
    /\ sig = EmptyDict
    /\ preloaded = <<>>
    /\ payload = NotCalled
    /\ asked_qid = <<>>
    /\ cli = PromptStart
    /\ SessionIdle
    /\ ParserIdle
    /\ RulesIdle
    /\ LoaderIdle

\* prompt_persona, one turn of its loop
TypePersona ==
    /\ cli.at = "persona"
    /\ \E typed \in TypedPersonas :
          cli' = IF PersonaChoice(typed) # <<>>
                 THEN [cli EXCEPT !.raw = typed, !.warning = "",
                                  !.persona = PersonaChoice(typed), !.at = "use_preloaded"]
                 ELSE [cli EXCEPT !.raw = typed,
                                  !.warning = "Please enter 1,2,3,4 or L,M,D,E."]
    /\ UNCHANGED <<rulesVars, engineVars, loaderVars, session, parsed>>

\* prompt_choose_preloaded_question: "Enter Y to choose from the question bank"
TypeUsePreloaded ==
    /\ cli.at = "use_preloaded"
    /\ \E typed \in TypedYesNo :
          cli' = [cli EXCEPT !.raw = typed, !.warning = "",
                             !.at = IF lower(strip(typed)) = <<"y">>
                                    THEN "category" ELSE "custom"]
    /\ UNCHANGED <<rulesVars, engineVars, loaderVars, session, parsed>>

\* prompt_choose_preloaded_question: the category typed and the questions listed
TypeCategory ==
    /\ cli.at = "category"
    /\ \E typed \in TypedCategories :
          cli' = [cli EXCEPT !.raw = typed, !.warning = "", !.cat = strip(typed),
                             !.listed = list_questions(QUESTION_BANK, strip(typed)),
                             !.at = "qid"]
    /\ UNCHANGED <<rulesVars, engineVars, loaderVars, session, parsed>>

\* prompt_choose_preloaded_question, one turn of its loop
TypeQuestionId ==
    /\ cli.at = "qid"
    /\ \E typed \in TypedIds :
          cli' = IF get_question(QUESTION_BANK, typed) # <<>>
                 THEN [cli EXCEPT !.raw = typed, !.warning = "",
                                  !.chosen = get_question(QUESTION_BANK, typed),
                                  !.at = "extras"]
                 ELSE [cli EXCEPT !.raw = typed,
                                  !.warning = "Not found. Please enter a valid ID shown above."]
    /\ UNCHANGED <<rulesVars, engineVars, loaderVars, session, parsed>>

\* prompt_signatures_input, the custom question: its core and its condition codes
TypeCustom ==
    /\ cli.at = "custom"
    /\ \E core \in {"PA", ""}, conditions \in PromptExtras :
          cli' = [cli EXCEPT !.raw = <<>>, !.warning = "", !.core = core,
                             !.conditions = conditions, !.at = "extras"]
    /\ UNCHANGED <<rulesVars, engineVars, loaderVars, session, parsed>>

\* prompt_signatures_input: the extra condition codes
TypeExtras ==
    /\ cli.at = "extras"
    /\ \E extra \in PromptExtras :
          cli' = [cli EXCEPT !.raw = <<>>, !.warning = "", !.extra = extra, !.at = "driver"]
    /\ UNCHANGED <<rulesVars, engineVars, loaderVars, session, parsed>>

\* prompt_signatures_input: "Driver code (blank to stop)", a code typed
TypeDriverCode ==
    /\ cli.at = "driver"
    /\ \E d \in TypedDriverCodes \ {""} :
          cli' = [cli EXCEPT !.raw = <<>>, !.warning = "", !.code = d, !.at = "value"]
    /\ UNCHANGED <<rulesVars, engineVars, loaderVars, session, parsed>>

\* prompt_signatures_input: "Value (-1, 0, 1)", one turn of the inner loop
TypeDriverValue ==
    /\ cli.at = "value"
    /\ \E typed \in TypedValues :
          cli' = IF DriverValueWarning(typed) = ""
                 THEN [cli EXCEPT !.raw = typed, !.warning = "",
                                  !.drivers = DictSet(cli.drivers, cli.code,
                                                      IntOf(PyStr(strip(typed)))[1]),
                                  !.at = "driver"]
                 ELSE [cli EXCEPT !.raw = typed, !.warning = DriverValueWarning(typed)]
    /\ UNCHANGED <<rulesVars, engineVars, loaderVars, session, parsed>>

\* prompt_signatures_input: the blank driver code, and the return
PromptReturns ==
    /\ cli.at = "driver"
    /\ cli' = [cli EXCEPT !.raw = <<>>, !.warning = "", !.at = "returned"]
    /\ preloaded' = cli.chosen
    /\ sig' = prompt_signatures_input(cli.persona[1], cli.chosen, cli.core,
                                      cli.conditions, cli.extra, cli.drivers)
    /\ pc' = "build"
    /\ UNCHANGED <<QUESTION_BANK, SECURITY_RULES, calc_mod, payload, asked_qid,
                   rulesVars, loaderVars, session, parsed>>

NextPrompt ==
    \/ TypePersona
    \/ TypeUsePreloaded
    \/ TypeCategory
    \/ TypeQuestionId
    \/ TypeCustom
    \/ TypeExtras
    \/ TypeDriverCode
    \/ TypeDriverValue
    \/ PromptReturns

SpecPrompt == InitPrompt /\ [][NextPrompt]_vars

-----------------------------------------------------------------------------
(* exercise_session.py: run_exercise_session over a saved program           *)
(* (specification SpecSession).                                             *)

\* most stages in a saved program
MaxStages == 2

\* str.split(","): the pieces between the commas
RECURSIVE SplitAtCommas(_, _, _)
SplitAtCommas(pieces, piece, text) ==
    IF text = <<>> THEN Append(pieces, piece)
    ELSE IF Head(text) = "," THEN SplitAtCommas(Append(pieces, piece), <<>>, Tail(text))
    ELSE SplitAtCommas(pieces, Append(piece, Head(text)), Tail(text))

\* [s.strip() for s in input(...).strip().lower().split(",")]
SymptomsTyped(typed) ==
    LET pieces == SplitAtCommas(<<>>, <<>>, lower(strip(typed)))
    IN  [i \in DOMAIN pieces |-> strip(pieces[i])]

\* any(symptom.lower() != "no" for symptom in symptoms)
AnySymptom(symptoms) == \E i \in DOMAIN symptoms : lower(symptoms[i]) # <<"n", "o">>

\* check_progression(exercise_heart_rate, target_heart_rate, perceived_exertion, symptoms)
check_progression(exercise_heart_rate, target_heart_rate, perceived_exertion, symptoms) ==
    LET hr_diff == exercise_heart_rate - target_heart_rate
    IN  IF AnySymptom(symptoms)
        THEN "Stop exercise and check in with healthcare professional"
        ELSE IF -5 <= hr_diff /\ hr_diff <= 5 /\ 3 <= perceived_exertion /\ perceived_exertion <= 4
        THEN "Proceed to next stage"
        ELSE IF hr_diff < -5 /\ perceived_exertion < 3 THEN "Advance to the next level"
        ELSE IF hr_diff > 5 /\ perceived_exertion > 4 THEN "Return to previous level"
        ELSE "Maintain current stage and monitor"

\* post_exercise_check(...)
post_exercise_check(post_hr, resting_hr, post_sys, post_dia, symptoms) ==
    LET gap == IF post_hr >= resting_hr THEN post_hr - resting_hr ELSE resting_hr - post_hr
        hr_recovered == post_hr < 100 \/ gap <= 10
        bp_ok == post_sys < 180 /\ post_dia < 100
    IN  IF AnySymptom(symptoms) THEN "Continue monitoring"
        ELSE IF hr_recovered /\ bp_ok THEN "You can end the session"
        ELSE "Continue monitoring"

\* a stage as input_exercise_stage saves it
SavedStage(name) ==
    [stage_name |-> name, exercise_heart_rate |-> 0, perceived_exertion |-> 0,
     symptoms |-> << <<"n", "o">> >>]

\* the saved programs: one to MaxStages stages
SavedPrograms ==
    {[i \in 1..n |-> SavedStage(IF i = 1 THEN "warm-up" ELSE "cardio")] : n \in 1..MaxStages}

\* what a user may type during a session
TypedMeasures == {<<110, 3>>, <<100, 2>>, <<120, 5>>, <<110, 5>>}
TypedSymptoms == {<<"n", "o">>, <<" ", "N", "o">>, <<"p", "a", "n", "g">>,
                  <<"n", "o", ",", " ", "a", "c", "h", "e">>, <<>>}
TypedVitals   == {<<95, 120, 80>>, <<130, 185, 90>>}

InitSession ==
    /\ session \in {[at |-> "start", exists |-> e, target_heart_rate |-> 110,
                     resting_heart_rate |-> 0, stages |-> p, i |-> 1,
                     printed |-> <<>>, log |-> <<>>] :
                       e \in BOOLEAN, p \in SavedPrograms}
    /\ PromptIdle
    /\ ParserIdle
    /\ RulesIdle
    /\ EngineIdle
    /\ LoaderIdle

\* run_exercise_session: the file is missing, the function returns
FileNotFound ==
    /\ session.at = "start"
    /\ ~session.exists
    /\ session' = [session EXCEPT !.at = "returned", !.printed = << "File not found" >>]
    /\ UNCHANGED <<rulesVars, engineVars, loaderVars, cli, parsed>>

\* run_exercise_session: the program is read and the resting heart rate asked
StartSession ==
    /\ session.at = "start"
    /\ session.exists
    /\ \E resting \in {60, 72} :
          session' = [session EXCEPT !.at = "stage", !.resting_heart_rate = resting]
    /\ UNCHANGED <<rulesVars, engineVars, loaderVars, cli, parsed>>

\* run_exercise_session, one turn of the loop over the stages
RunStage ==
    /\ session.at = "stage"
    /\ session.i <= Len(session.stages)
    /\ \E measure \in TypedMeasures, typed \in TypedSymptoms :
          LET symptoms == SymptomsTyped(typed)
              result   == check_progression(measure[1], session.target_heart_rate,
                                            measure[2], symptoms)
          IN  session' = [session EXCEPT
                  !.stages[session.i].exercise_heart_rate = measure[1],
                  !.stages[session.i].perceived_exertion = measure[2],
                  !.stages[session.i].symptoms = symptoms,
                  !.printed = Append(session.printed, result),
                  !.i = session.i + 1]
    /\ UNCHANGED <<rulesVars, engineVars, loaderVars, cli, parsed>>

\* run_exercise_session after the loop: the post-exercise check and the log
PostExerciseCheck ==
    /\ session.at = "stage"
    /\ session.i > Len(session.stages)
    /\ \E vitals \in TypedVitals, typed \in TypedSymptoms :
          session' = [session EXCEPT
                  !.at = "returned",
                  !.printed = Append(session.printed,
                                     post_exercise_check(vitals[1], session.resting_heart_rate,
                                                         vitals[2], vitals[3],
                                                         SymptomsTyped(typed))),
                  !.log = session.stages]
    /\ UNCHANGED <<rulesVars, engineVars, loaderVars, cli, parsed>>

NextSession ==
    \/ FileNotFound
    \/ StartSession
    \/ RunStage
    \/ PostExerciseCheck

SpecSession == InitSession /\ [][NextSession]_vars

-----------------------------------------------------------------------------
(* convert_questions_to_text_to_bank.py: parse_blocks, one input line at a   *)
(* time (specification SpecConvert).  A line is the sequence of its words    *)
(* and marks, blanks between them left out; a text built by the parser keeps *)
(* the blank " " it joins with.                                              *)

\* most lines in the pasted input
MaxLines == 3

CONVERT_PERSONAS == <<"Listener", "Motivator", "Director", "Expert">>

\* str.lower() on a word
LowerWord ==
    ("Question" :> "question") @@ ("QUESTION" :> "question") @@ ("Listener" :> "listener")
    @@ ("Director" :> "director") @@ ("Motivator" :> "motivator") @@ ("Expert" :> "expert")
    @@ ("EXPERT" :> "expert") @@ ("Action" :> "action") @@ ("Step" :> "step")
    @@ ("Why" :> "why") @@ ("Stroke" :> "stroke") @@ ("Diabetes" :> "diabetes")
    @@ ("Heart" :> "heart") @@ ("Failure" :> "failure") @@ ("Top" :> "top")
lowerWord(w) == IF w \in DOMAIN LowerWord THEN LowerWord[w] ELSE w
lowerLine(line) == [i \in DOMAIN line |-> lowerWord(line[i])]

\* the words run in the line, one after the other
HasPhrase(line, phrase) ==
    \E i \in 0..(Len(line) - Len(phrase)) :
        \A j \in DOMAIN phrase : line[i + j] = phrase[j]

\* the words appear in the line in this order, anything between them
HasInOrder(line, a, b, c) ==
    \E i, j, k \in DOMAIN line : i < j /\ j < k /\ line[i] = a /\ line[j] = b /\ line[k] = c

\* CATEGORY_HINTS: the phrases of each pattern and its category, in order
CATEGORY_HINTS ==
    << [phrases |-> {<<"heart", ",", "kidney", ",", "and", "metabolic">>}, cat |-> "CKM"],
       [phrases |-> {}, cat |-> "CKM"],
       [phrases |-> {<<"high", "blood", "pressure">>, <<"hypertension">>}, cat |-> "HTN"],
       [phrases |-> {<<"heart", "failure">>}, cat |-> "HF"],
       [phrases |-> {<<"coronary", "artery", "disease">>, <<"cad">>}, cat |-> "CAD"],
       [phrases |-> {<<"atrial", "fibrillation">>, <<"afib">>}, cat |-> "AFIB"],
       [phrases |-> {<<"stroke">>}, cat |-> "STROKE"],
       [phrases |-> {<<"diabetes">>}, cat |-> "DM"] >>

\* re.search(pat, low) for the i-th hint (the second is cardio.*kidney.*metabolic)
HintFound(i, low) ==
    \/ \E phrase \in CATEGORY_HINTS[i].phrases : HasPhrase(low, phrase)
    \/ i = 2 /\ HasInOrder(low, "cardio", "kidney", "metabolic")

\* detect_category_from_line(line, current)
detect_category_from_line(line, current) ==
    LET low  == lowerLine(line)
        hits == SelectSeq([i \in DOMAIN CATEGORY_HINTS |-> i], LAMBDA i : HintFound(i, low))
    IN  IF hits # <<>> THEN CATEGORY_HINTS[hits[1]].cat ELSE current

\* clean_quotes(s): strip, the quote marks off both ends, strip; "\"" stands for
\* the straight and the curly double quotes
clean_quotes(s) == strip(stripSet(strip(s), {"\""}))

\* QUESTION_RE.match(line): <<q1 or q2>>, or <<>> when the line does not match
QuestionMatch(line) ==
    IF /\ Len(line) >= 4
       /\ lowerWord(line[1]) = "question"
       /\ line[2] \in DOMAIN DigitValue
       /\ line[3] = ":"
    THEN LET rest == SubSeq(line, 4, Len(line))
         IN  IF Len(rest) >= 3 /\ rest[1] = "\"" /\ rest[Len(rest)] = "\""
             THEN <<SubSeq(rest, 2, Len(rest) - 1)>>
             ELSE <<rest>>
    ELSE <<>>

\* PERSONA_RE.match(line): <<persona as written, rest>>, or <<>>; "(bullet)" is
\* the bullet mark U+2022
PersonaMatch(line) ==
    LET body == IF line # <<>> /\ Head(line) \in {"(bullet)", "-", "*", "_"} THEN Tail(line) ELSE line
    IN  IF body # <<>> /\ lowerWord(Head(body)) \in {lowerWord(CONVERT_PERSONAS[i]) : i \in 1..4}
        THEN <<Head(body), Tail(body)>> ELSE <<>>

\* str.capitalize() on a persona name
Capitalize(w) ==
    CONVERT_PERSONAS[CHOOSE i \in 1..4 : lowerWord(CONVERT_PERSONAS[i]) = lowerWord(w)]

\* ACTION_RE.match(line) and WHY_RE.match(line): <<group(1)>>, or <<>>
ActionMatch(line) ==
    IF /\ Len(line) >= 4
       /\ lowerWord(line[1]) = "action" /\ lowerWord(line[2]) = "step" /\ line[3] = ":"
    THEN <<SubSeq(line, 4, Len(line))>> ELSE <<>>
WhyMatch(line) ==
    IF Len(line) >= 3 /\ lowerWord(line[1]) = "why" /\ line[2] = ":"
    THEN <<SubSeq(line, 3, Len(line))>> ELSE <<>>

\* QuestionItem(category=category, question=q_text, responses={})
QuestionItem(category, q_text) ==
    [category |-> category, question |-> q_text, responses |-> <<>>,
     action_step |-> <<>>, why_it_matters |-> <<>>]

\* current_q.responses.setdefault(p, "") for each p in PERSONAS
RECURSIVE SetDefaults(_, _)
SetDefaults(responses, names) ==
    IF names = <<>> THEN responses
    ELSE SetDefaults(IF DictHas(responses, Head(names)) THEN responses
                     ELSE DictSet(responses, Head(names), <<>>),
                     Tail(names))

\* flush_current appending current_q as it stands
flush_current_as_it_stands(st) ==
    [st EXCEPT !.items = IF st.current_q # <<>> THEN Append(st.items, st.current_q[1])
                         ELSE st.items,
               !.current_q = <<>>,
               !.current_persona = <<>>]

\* flush_current()
flush_current(st) ==
    [st EXCEPT !.items = IF st.current_q # <<>>
                         THEN Append(st.items,
                                     [st.current_q[1] EXCEPT
                                        !.responses = SetDefaults(st.current_q[1].responses,
                                                                  CONVERT_PERSONAS)])
                         ELSE st.items,
               !.current_q = <<>>,
               !.current_persona = <<>>]

\* parse_blocks, the body of the loop for one raw line
ParseOneLine(st, raw) ==
    LET line == strip(raw)
        cat  == detect_category_from_line(line, st.category)
        seen == [st EXCEPT !.category = cat]
        m    == QuestionMatch(line)
        pm   == PersonaMatch(line)
        am   == ActionMatch(line)
        wm   == WhyMatch(line)
        q    == st.current_q
    IN  IF line = <<>> THEN st
        ELSE IF m # <<>>
        THEN [flush_current(seen) EXCEPT
                 !.current_q = <<QuestionItem(cat, clean_quotes(m[1]))>>,
                 !.current_persona = <<>>]
        ELSE IF pm # <<>> /\ q # <<>>
        THEN LET p   == Capitalize(pm[1])
                 msg == clean_quotes(pm[2])
             IN  [seen EXCEPT
                     !.current_q = <<[q[1] EXCEPT !.responses =
                                        DictSet(q[1].responses, p,
                                                IF msg # <<>> THEN msg
                                                ELSE DictGet(q[1].responses, p, <<>>))]>>,
                     !.current_persona = <<p>>]
        ELSE IF am # <<>> /\ q # <<>>
        THEN [seen EXCEPT !.current_q = <<[q[1] EXCEPT !.action_step = clean_quotes(am[1])]>>,
                          !.current_persona = <<>>]
        ELSE IF wm # <<>> /\ q # <<>>
        THEN [seen EXCEPT !.current_q = <<[q[1] EXCEPT !.why_it_matters = clean_quotes(wm[1])]>>,
                          !.current_persona = <<>>]
        ELSE IF q # <<>> /\ st.current_persona # <<>>
        THEN IF lowerWord(Head(line)) = "question" /\ Len(line) >= 2 THEN seen
             ELSE LET p    == st.current_persona[1]
                      prev == DictGet(q[1].responses, p, <<>>)
                  IN  [seen EXCEPT
                          !.current_q = <<[q[1] EXCEPT !.responses =
                                DictSet(q[1].responses, p,
                                        strip(prev \o <<" ">> \o clean_quotes(line)))]>>]
        ELSE seen

\* the lines a pasted text may hold
PastedLines ==
    { <<>>,
      <<"Top", "Questions", "about", "Diabetes">>,
      <<"Question", "1", ":", "\"", "what", "now", "\"">>,
      <<"question", "2", ":", "is", "it", "a", "stroke">>,
      <<"Question", "3", ":">>,
      <<"(bullet)", "Listener", ":", "\"", "calm", "\"">>,
      <<"EXPERT", "lowers", "stroke", "risk">>,
      <<"Director">>,
      <<"Action", "Step", ":", "walk">>,
      <<"Why", ":", "Heart", "Failure", "care">>,
      <<" ", "and", "more", " ">> }

PastedTexts == UNION {[1..n -> PastedLines] : n \in 1..MaxLines}

InitConvert ==
    /\ parsed \in {[at |-> "loop", lines |-> t, n |-> 1, items |-> <<>>,
                    category |-> "GENERAL", current_q |-> <<>>, current_persona |-> <<>>] :
                      t \in PastedTexts}
    /\ PromptIdle
    /\ SessionIdle
    /\ RulesIdle
    /\ EngineIdle
    /\ LoaderIdle

\* parse_blocks: one turn of `for raw in lines`
ParseLine ==
    /\ parsed.at = "loop"
    /\ parsed.n <= Len(parsed.lines)
    /\ parsed' = [ParseOneLine(parsed, parsed.lines[parsed.n]) EXCEPT !.n = parsed.n + 1]
    /\ UNCHANGED <<rulesVars, engineVars, loaderVars, cli, session>>

\* parse_blocks after the loop: flush_current() and return items
ParseReturns ==
    /\ parsed.at = "loop"
    /\ parsed.n > Len(parsed.lines)
    /\ parsed' = [flush_current(parsed) EXCEPT !.at = "returned"]
    /\ UNCHANGED <<rulesVars, engineVars, loaderVars, cli, session>>

NextConvert ==
    \/ ParseLine
    \/ ParseReturns

SpecConvert == InitConvert /\ [][NextConvert]_vars

-----------------------------------------------------------------------------
(* SpecAssembly: either assembly path runs, the CLI's build_payload or a    *)
(* caller's build_signatures_output.                                        *)

InitAssembly == InitRules \/ InitEngine

NextAssembly == NextRules \/ NextEngine

SpecAssembly == InitAssembly /\ [][NextAssembly]_vars

-----------------------------------------------------------------------------
(* The outputs the properties below read.                                   *)

\* build_signatures_output returned (it did not raise)
Returned_out == out.done /\ out.raised = ""

\* build_payload returned (it did not raise)
Returned_payload == payload.done /\ payload.raised = ""

\* the preloaded question has an answer for the chosen persona
HasAnswer == preloaded # <<>> /\ sig.persona \in DOMAIN preloaded[1].answers

\* the active conditions that have a condition-specific rule for the behavioral core
ConditionsWithRule ==
    {c \in Range(payload.active_conditions) :
        SpecificKey(payload.behavioral_core, c) \in DOMAIN SECURITY_RULES}

\* C1: a driver code whose tri-state value in the question's engagement drivers is
\* -1 or 0 is in no engagement-driver entry of build_signatures_output's output and
\* not among build_payload's active_drivers.
C1_DriverFiltering ==
    /\ Returned_out =>
          \A i \in DOMAIN out.signatures.engagement_drivers :
              DictGet(question.attrs.signatures_tags.engagement_drivers,
                      out.signatures.engagement_drivers[i].code, 1) \notin {-1, 0}
    /\ Returned_payload =>
          \A i \in DOMAIN payload.active_drivers :
              DictGet(sig.engagement_drivers, payload.active_drivers[i], 1) \notin {-1, 0}

\* C2 as stated: with behavioral core PA, active condition CD and both the PA-generic
\* and the PA+CD-specific rule in the registry, security_rules holds both rules.
C2_BothRules ==
    (/\ Returned_payload
     /\ payload.behavioral_core = "PA"
     /\ "CD" \in Range(payload.active_conditions)
     /\ GenericKey("PA") \in DOMAIN SECURITY_RULES
     /\ SpecificKey("PA", "CD") \in DOMAIN SECURITY_RULES)
    => /\ SECURITY_RULES[SpecificKey("PA", "CD")] \in Range(payload.security_rules)
       /\ SECURITY_RULES[GenericKey("PA")] \in Range(payload.security_rules)

\* C2 amended: with behavioral core PA, active condition CD and both rules in the
\* registry, security_rules holds the PA+CD-specific rule and not the PA-generic one;
\* the generic rule of a behavioral core is in security_rules exactly when no active
\* condition has a condition-specific rule for that core.
C2_SpecificReplacesGeneric ==
    Returned_payload =>
        /\ (/\ payload.behavioral_core = "PA"
            /\ "CD" \in Range(payload.active_conditions)
            /\ GenericKey("PA") \in DOMAIN SECURITY_RULES
            /\ SpecificKey("PA", "CD") \in DOMAIN SECURITY_RULES)
           => /\ SECURITY_RULES[SpecificKey("PA", "CD")] \in Range(payload.security_rules)
              /\ SECURITY_RULES[GenericKey("PA")] \notin Range(payload.security_rules)
        /\ GenericKey(payload.behavioral_core) \in DOMAIN SECURITY_RULES
           => (SECURITY_RULES[GenericKey(payload.behavioral_core)] \in Range(payload.security_rules)
               <=> ConditionsWithRule = {})

\* C2 witness: PA with CD active was assembled and security_rules is the specific rule alone
C2_Witness ==
    /\ Returned_payload
    /\ payload.behavioral_core = "PA"
    /\ "CD" \in Range(payload.active_conditions)
    /\ GenericKey("PA") \in DOMAIN SECURITY_RULES
    /\ payload.security_rules = <<SECURITY_RULES[SpecificKey("PA", "CD")]>>

\* C3: every active condition that has a condition-specific rule for the behavioral
\* core has that rule in security_rules (also when two or more conditions have one);
\* when no active condition has one and the generic rule exists, security_rules is
\* the generic rule.
C3_SecurityRuleCompleteness ==
    Returned_payload =>
        /\ \A c \in ConditionsWithRule :
              SECURITY_RULES[SpecificKey(payload.behavioral_core, c)]
                  \in Range(payload.security_rules)
        /\ (ConditionsWithRule = {} /\ GenericKey(payload.behavioral_core) \in DOMAIN SECURITY_RULES)
           => payload.security_rules = <<SECURITY_RULES[GenericKey(payload.behavioral_core)]>>

\* C3 witness: two active conditions with a specific rule each, both rules assembled
C3_Witness ==
    /\ Returned_payload
    /\ Cardinality(ConditionsWithRule) >= 2
    /\ Len(payload.security_rules) = 2
    /\ payload.security_rules[1] # payload.security_rules[2]

\* C4: assembly never raises: build_payload raises no ValueError over an engagement
\* driver value, and build_signatures_output raises nothing on a question as the
\* loader types it.
C4_Totality ==
    /\ payload.done => payload.raised # "ValueError"
    /\ out.done => out.raised = ""

\* C5: when the question's response for the chosen persona is empty or missing and
\* the registry has an entry for the question's behavioral core, the assembled
\* primary response is the registry's resolved message for that core and is not empty.
C5_FallbackCorrectness ==
    /\ (/\ Returned_out
        /\ Get(question.attrs.responses, persona, <<>>) = <<>>
        /\ question.attrs.signatures_tags.behavioral_core # <<>>
        /\ question.attrs.signatures_tags.behavioral_core[1] \in DOMAIN BEHAVIORAL_CORE_MESSAGES)
       => /\ out.response.message =
                ResolveEntry(BEHAVIORAL_CORE_MESSAGES,
                             question.attrs.signatures_tags.behavioral_core[1], persona).message
          /\ out.response.message # <<>>
    /\ (/\ Returned_payload
        /\ HasAnswer
        /\ preloaded[1].answers[sig.persona].text = <<>>
        /\ payload.behavioral_core \in DOMAIN BEHAVIOR_CORE_CANONICAL)
       => payload.persona_output[2] = BEHAVIOR_CORE_CANONICAL[payload.behavioral_core]

\* C6 as stated: whenever the question has a non-empty response for the chosen
\* persona, the assembled primary response is that text verbatim.
C6_Verbatim ==
    /\ (Returned_out /\ Get(question.attrs.responses, persona, <<>>) # <<>>)
       => out.response.message = question.attrs.responses[persona]
    /\ (Returned_payload /\ HasAnswer /\ preloaded[1].answers[sig.persona].text # <<>>)
       => payload.persona_output[2] = preloaded[1].answers[sig.persona].text

\* C6 amended: build_signatures_output answers with the question's response for the
\* chosen persona stripped of leading and trailing whitespace, whenever the stripped
\* text is non-empty (a whitespace-only response counts as empty); build_payload
\* answers with the preloaded answer's text verbatim.  Neither is the registry text.
C6_AuthoredContentWins ==
    /\ (Returned_out /\ strip(Get(question.attrs.responses, persona, <<>>)) # <<>>)
       => out.response.message = strip(question.attrs.responses[persona])
    /\ (Returned_payload /\ HasAnswer /\ preloaded[1].answers[sig.persona].text # <<>>)
       => payload.persona_output[2] = preloaded[1].answers[sig.persona].text

\* C6 witness: an authored response with whitespace around it was answered stripped
C6_Witness ==
    /\ Returned_out
    /\ Get(question.attrs.responses, persona, <<>>) = <<" ", "authored", persona, " ">>
    /\ out.response.message = <<"authored", persona>>
    /\ question.attrs.signatures_tags.behavioral_core = <<"PA">>

\* C7: no two questions of the bank built by build_question_bank share an id.
C7_IdUniqueness ==
    loaded = "built" =>
        \A i, j \in DOMAIN question_bank :
            i # j => question_bank[i][2].id # question_bank[j][2].id

\* C7 witness: two packs whose keys slug to the same code were built into a bank of
\* two questions with different ids
C7_Witness ==
    /\ loaded = "built"
    /\ Len(packs) = 2
    /\ slug_upper(packs[1][1]) = slug_upper(packs[2][1])
    /\ Len(question_bank) = 2
    /\ question_bank[1][2].id # question_bank[2][2].id

\* the entries of one output list obey "unknown code: label is the code, message is empty"
UnknownAreBare(entries, registry) ==
    \A i \in DOMAIN entries :
        entries[i].code \notin DOMAIN registry
            => entries[i].label = entries[i].code /\ entries[i].message = <<>>

\* C8: build_signatures_output on a question object never raises over a code that is
\* in no registry, and every entry of such a code, in each of the five lists, has the
\* bare code as label and the empty string as message, whatever the persona.
C8_UnknownCodeSafety ==
    out.done =>
        /\ HasAttr(question, "signatures_tags") => out.raised = ""
        /\ out.raised = "" =>
              /\ UnknownAreBare(out.signatures.behavioral_core, BEHAVIORAL_CORE_MESSAGES)
              /\ UnknownAreBare(out.signatures.condition_modifiers, CONDITION_MODIFIER_MESSAGES)
              /\ UnknownAreBare(out.signatures.engagement_drivers, ENGAGEMENT_DRIVER_MESSAGES)
              /\ UnknownAreBare(out.signatures.security_rules, CONTENT_SECURITY_RULES)
              /\ UnknownAreBare(out.signatures.action_plans, ACTION_PLANS)

\* C8 witness: an unknown behavioral core and an unknown action plan were resolved
\* for a persona no registry knows
C8_Witness ==
    /\ Returned_out
    /\ persona = "Coach"
    /\ out.signatures.behavioral_core =
          <<[code |-> "SLEEP", label |-> "SLEEP", message |-> <<>>]>>
    /\ \E i \in DOMAIN out.signatures.action_plans :
          out.signatures.action_plans[i] =
              [code |-> "ZZZ-NOT-A-REAL-CODE", label |-> "ZZZ-NOT-A-REAL-CODE", message |-> <<>>]

\* the raw engagement_drivers dict of the one question of a pack of DriverPacks
RawDrivers ==
    DictGet(DictGet(DictGet(packs[1][2].items, "questions", PyList(<<>>)).items[1].items,
                    "signatures", PyDictOf(<<>>)).items,
            "engagement_drivers", PyDictOf(<<>>)).items

\* the engagement_drivers stored for that question
StoredDrivers == question_bank[1][2].signatures.engagement_drivers

\* the raw entries that have a key: a str that is not blank
KeyedEntries == {i \in DOMAIN RawDrivers :
                    RawDrivers[i][1].type = "str" /\ RawDrivers[i][1].text # <<" ">>}

\* the last raw entry with a key (all keys of RawDriverKeys are stored as "PR")
LastKeyed == CHOOSE i \in KeyedEntries : \A j \in KeyedEntries : j <= i

-----------------------------------------------------------------------------
(* The bank after import and after the calls made on it.                    *)

\* C11: in the bank build_question_bank produced, and after any number of
\* autofix_question_bank calls on it, every engagement driver value of every
\* question is -1, 0 or 1.
C11_DriverRange ==
    loaded = "built" =>
        \A i \in DOMAIN question_bank :
            LET ed == question_bank[i][2].signatures.engagement_drivers
            IN  \A j \in DOMAIN ed : ed[j][2] \in {-1, 0, 1}

\* autofix has run on a bank whose first question was authored with the
\* drivers pr = 5 and tr = -3
C11_Witness ==
    /\ loaded = "built"
    /\ ret.op = "autofix"
    /\ Len(packs) = 1
    /\ Len(question_bank) = 1
    /\ DictGet(packs[1][2].items, "questions", PyNothing) = PyList(<<Q_whole>>)
    /\ question_bank[1][2].signatures.engagement_drivers
         = << <<(<<"P", "R">>), 1>>, <<(<<"T", "R">>), -1>> >>

\* the key of questions.PERSONAS for a persona of signatures_content.PERSONAS
PersonaKey ==
    ("Listener" :> "listener") @@ ("Motivator" :> "motivator")
    @@ ("Director" :> "director") @@ ("Expert" :> "expert")

\* the raw questions of a pack that was loaded
RawQuestionsOf(pack) == DictGet(pack.items, "questions", PyList(<<>>)).items

\* the raw responses entries of a raw question
RawResponsesOf(q) ==
    LET r == DictGet(q.items, "responses", PyNothing)
    IN  IF r.type = "dict" THEN r.items ELSE <<>>

\* what the author wrote for persona P, under its name or under its lower-case key
AuthoredFor(q, P) ==
    IF DictHas(RawResponsesOf(q), PersonaKey[P])
    THEN DictGet(RawResponsesOf(q), PersonaKey[P], PyNothing)
    ELSE DictGet(RawResponsesOf(q), P, PyNothing)

IsAuthored(q, P) == AuthoredFor(q, P).type = "str" /\ strip(AuthoredFor(q, P).text) # <<>>

\* C12: every question of the built bank has a non-empty response for each
\* of the four personas: a persona the raw question answers keeps the
\* authored text (surrounding whitespace aside), any other persona gets the
\* placeholder.  Stated for PACKS of one pack, where the i-th item of the
\* bank is the i-th raw question.
C12_PersonaNormalization ==
    (loaded = "built" /\ Len(packs) = 1) =>
        \A i \in DOMAIN question_bank :
            LET raw    == RawQuestionsOf(packs[1][2])[i]
                stored == question_bank[i][2].responses
            IN  \A P \in PERSONAS :
                    /\ stored[PersonaKey[P]] # <<>>
                    /\ IsAuthored(raw, P) =>
                          stored[PersonaKey[P]] = strip(AuthoredFor(raw, P).text)
                    /\ ~IsAuthored(raw, P) =>
                          stored[PersonaKey[P]] = strip(PlaceholderFor(PersonaKey[P]))

\* C13: when a raw question has no expert response, the loaded item's expert
\* response is a non-empty placeholder, and validate_question_bank on the
\* loaded bank reports a warn-level issue for that id naming the expert.
\* Stated for PACKS of one pack, where the i-th item of the bank is the i-th
\* raw question.
C13_MissingPersonaReported ==
    (/\ loaded = "built"
     /\ Len(packs) = 1
     /\ ret.op = "validate"
     /\ ret.on = "QUESTION_BANK") =>
        \A i \in DOMAIN question_bank :
            ~DictHas(RawResponsesOf(RawQuestionsOf(packs[1][2])[i]), "expert") =>
                /\ question_bank[i][2].responses["expert"] # <<>>
                /\ \E j \in DOMAIN ret.issues :
                       /\ ret.issues[j].level = "warn"
                       /\ ret.issues[j].qid = question_bank[i][1]
                       /\ "expert" \in Range(ret.issues[j].detail)

-----------------------------------------------------------------------------
(* search_questions: what a search returned, against the bank it ran on.    *)

\* a search with a query that is a str and not blank has returned
Searched ==
    /\ loaded = "built"
    /\ ret.op = "search"
    /\ ret.query.type = "str"
    /\ strip(ret.query.text) # <<>>

\* the query as the search compares it
Needle == lower(strip(ret.query.text))

\* t holds q somewhere
Occurs(t, q) == \E i, j \in 1..Len(t) : SubSeq(t, i, j) = q

\* the words of a text
RECURSIVE Words(_, _)
Words(t, word) ==
    IF t = <<>> THEN (IF word = <<>> THEN {} ELSE {word})
    ELSE IF Head(t) = " " THEN (IF word = <<>> THEN {} ELSE {word}) \cup Words(Tail(t), <<>>)
    ELSE Words(Tail(t), Append(word, Head(t)))

\* the item is in the category the search was restricted to
InCategory(item) ==
    \/ ret.category.type # "str"
    \/ strip(ret.category.text) = <<>>
    \/ upper(strip(item.category)) = upper(strip(ret.category.text))

\* the text the search reads of an item: title, question text, keywords,
\* behavioral core, condition modifiers and driver codes, joined by blanks
SearchedText(item) ==
    lower(item.title \o <<" ">> \o item.question
          \o <<" ">> \o Join(item.keywords, <<" ">>)
          \o <<" ">> \o Join(item.signatures.behavioral_core, <<" ">>)
          \o <<" ">> \o Join(item.signatures.condition_modifiers, <<" ">>)
          \o <<" ">> \o Join(DictKeys(item.signatures.engagement_drivers), <<" ">>))

\* the fields the search is said to read: question text, tags, persona answers
SaidFields(item) ==
    {item.question} \cup Range(item.keywords)
    \cup Range(item.signatures.behavioral_core) \cup Range(item.signatures.condition_modifiers)
    \cup {item.responses[p] : p \in Range(BANK_PERSONAS)}

HitIds == {ret.hits[j].id : j \in DOMAIN ret.hits}
BankItemOf(qid) == DictGet(question_bank, qid, <<>>)
NotTruncated == Len(question_bank) <= ret.limit

\* C14 as stated: the search matches the query, whatever its letter case,
\* against question text, tags and persona answers; it returns the questions
\* holding the whole query and those holding only single words of it, the
\* former ranked above the latter.
C14_MatchesAllFields ==
    (Searched /\ NotTruncated) =>
        /\ \A i \in DOMAIN question_bank :
              LET item  == question_bank[i][2]
                  whole == \E f \in SaidFields(item) : Occurs(lower(f), Needle)
                  words == \E f \in SaidFields(item), w \in Words(Needle, <<>>) :
                              Occurs(lower(f), w)
              IN  InCategory(item) => ((whole \/ words) <=> item.id \in HitIds)
        /\ \A j, k \in DOMAIN ret.hits :
              LET whole(h) == \E f \in SaidFields(BankItemOf(h.id)) : Occurs(lower(f), Needle)
              IN  (whole(ret.hits[j]) /\ ~whole(ret.hits[k])) => j < k

\* C14 as the code has it: the hits are the questions of the category whose
\* title, question text, keywords and signature codes, joined by blanks and
\* lower-cased, hold the whole stripped lower-cased query; persona answers
\* are not read and single words of the query do not match; a hit with more
\* occurrences of the query comes before one with fewer.
C14_SubstringSearch ==
    Searched =>
        /\ \A j \in DOMAIN ret.hits :
              /\ DictHas(question_bank, ret.hits[j].id)
              /\ InCategory(BankItemOf(ret.hits[j].id))
              /\ Occurs(SearchedText(BankItemOf(ret.hits[j].id)), Needle)
        /\ NotTruncated =>
              \A i \in DOMAIN question_bank :
                  (InCategory(question_bank[i][2])
                   /\ Occurs(SearchedText(question_bank[i][2]), Needle))
                      => question_bank[i][1] \in HitIds
        /\ \A j, k \in DOMAIN ret.hits :
              j < k => Count(SearchedText(BankItemOf(ret.hits[j].id)), Needle)
                          >= Count(SearchedText(BankItemOf(ret.hits[k].id)), Needle)

\* a search for " GO TO " found a question that reads "Go To" and left out
\* one that holds "go to" in its answers only and one that holds both words apart
C14_Witness ==
    /\ Searched
    /\ ret.query = PyStr(<<" ", "G", "O", " ", "T", "O", " ">>)
    /\ NotTruncated
    /\ \E i, j, k \in DOMAIN question_bank :
          /\ question_bank[i][2].question = GoTo
          /\ question_bank[i][1] \in HitIds
          /\ question_bank[j][2].responses["listener"] = goto
          /\ question_bank[j][1] \notin HitIds
          /\ question_bank[k][2].question = <<"t", "o", " ", "g", "o">>
          /\ question_bank[k][1] \notin HitIds

\* where the bank holds an id, in its own (insertion) order
BankPosition(qid) == CHOOSE i \in DOMAIN question_bank : question_bank[i][1] = qid

\* the occurrences of the query the search counted for a hit
ScoreOf(hit) == Count(SearchedText(BankItemOf(hit.id)), Needle)

\* the questions of the category that hold the query
Matching ==
    {i \in DOMAIN question_bank :
        /\ InCategory(question_bank[i][2])
        /\ Occurs(SearchedText(question_bank[i][2]), Needle)}

\* max(1, limit)
MostHits == IF ret.limit < 1 THEN 1 ELSE ret.limit

\* a query that is empty, blank or no str finds nothing; the result is cut to max(1, limit)
SearchBounds ==
    (loaded = "built" /\ ret.op = "search") =>
        /\ ~Searched => ret.hits = <<>>
        /\ Searched =>
              Len(ret.hits) = (IF Cardinality(Matching) < MostHits
                               THEN Cardinality(Matching) ELSE MostHits)

\* C15 as stated: hits of equal score come in the bank's original order;
\* the result is cut to max(1, limit); an empty or blank query finds nothing.
C15_TiesInBankOrder ==
    /\ SearchBounds
    /\ Searched =>
          \A j, k \in DOMAIN ret.hits :
              (j < k /\ ScoreOf(ret.hits[j]) = ScoreOf(ret.hits[k]))
                  => BankPosition(ret.hits[j].id) < BankPosition(ret.hits[k].id)

\* C15 as the code has it: hits of equal score come in ascending order of
\* their ids; the result is cut to max(1, limit); an empty or blank query
\* (or one that is no str) finds nothing.
C15_TiesInIdOrder ==
    /\ SearchBounds
    /\ Searched =>
          \A j, k \in DOMAIN ret.hits :
              (j < k /\ ScoreOf(ret.hits[j]) = ScoreOf(ret.hits[k]))
                  => StrLess(ret.hits[j].id, ret.hits[k].id)

\* two hits of equal score came back in the order of their ids, against the
\* order the bank holds them in
C15_Witness ==
    /\ Searched
    /\ \E j, k \in DOMAIN ret.hits :
          /\ j < k
          /\ ScoreOf(ret.hits[j]) = ScoreOf(ret.hits[k])
          /\ BankPosition(ret.hits[j].id) > BankPosition(ret.hits[k].id)

-----------------------------------------------------------------------------
(* Lookup by id: questions.get_question_by_id and the engine's get_question. *)

\* C16: looking an id of the bank up in any letter case, blanks around it or
\* not, returns that question, and an id the bank does not hold returns
\* None: for get_question_by_id on the loaded bank, and for the engine's
\* get_question, where the prompt reports an id as not found only if the
\* bank holds it in no letter case.
C16_CaseInsensitiveGet ==
    /\ (loaded = "built" /\ ret.op = "get" /\ ret.qid.type = "str") =>
          LET same == {i \in DOMAIN question_bank :
                          lower(question_bank[i][1]) = lower(strip(ret.qid.text))}
          IN  /\ \A i \in same : ret.found = <<question_bank[i][2]>>
              /\ same = {} => ret.found = <<>>
    /\ (pc = "prompt" /\ asked_qid # <<>>) =>
          \A i \in DOMAIN QUESTION_BANK :
              lower(Spelling[QUESTION_BANK[i][1]]) # lower(strip(asked_qid))

-----------------------------------------------------------------------------
(* The ids and categories of the bank.                                      *)

\* the prefix of an id of the engine's bank
IdPrefix ==
    ("CKM-01" :> "CKM") @@ ("CKM-06" :> "CKM") @@ ("CKM-09" :> "CKM")
    @@ ("HBP-01" :> "HBP") @@ ("REHAB-01" :> "REHAB") @@ ("REHAB-02" :> "REHAB")

\* the questions a loaded pack holds: none if its questions are no list
QuestionsIn(pack) ==
    LET qs == DictGet(pack.items, "questions", PyList(<<>>))
    IN  IF qs.type = "list" THEN qs.items ELSE <<>>

\* the code of a pack: its key in upper case without the characters that are
\* no letter, digit, "_" or "-", and without "-" and "_" at its ends; PACK if
\* nothing is left
CodeOf(key) == IF slug_upper(key) = <<>> THEN <<"P", "A", "C", "K">> ELSE slug_upper(key)

\* the category of a pack: its category field stripped and in upper case, its
\* code if the field is missing or blank
CategoryOf(key, pack) ==
    LET c == DictGet(pack.items, "category", PyStr(<<>>))
    IN  IF c.type = "str" /\ strip(c.text) # <<>> THEN upper(strip(c.text)) ELSE CodeOf(key)

\* n < 100 in two digits
TwoDigits(n) ==
    <<CHOOSE c \in DOMAIN DigitValue : DigitValue[c] = n \div 10,
      CHOOSE c \in DOMAIN DigitValue : DigitValue[c] = n % 10>>

\* C17 as stated: the id of a question is '<category>-<NN>', NN the 1-based
\* two-digit index of the question in encounter order, and its category is
\* the prefix of its id: in the loaded bank and in the engine's bank.
C17_IdIsCategoryAndIndex ==
    /\ loaded = "built" =>
          \A k \in DOMAIN question_bank :
              \E p \in DOMAIN packs :
              \E i \in DOMAIN QuestionsIn(packs[p][2]) :
                  /\ question_bank[k][1] = question_bank[k][2].id
                  /\ question_bank[k][2].id
                       = question_bank[k][2].category \o <<"-">> \o TwoDigits(i)
    /\ \A k \in DOMAIN QUESTION_BANK :
          QUESTION_BANK[k][2].category = IdPrefix[QUESTION_BANK[k][1]]

\* C17 as the code has it: the id is '<pack code>-<NN>', the pack code made
\* from the pack's key and NN the 1-based two-digit position of the question
\* in the list of its pack; the category is the pack's category field
\* stripped and in upper case (the pack code if that is missing or blank) and
\* need not be the prefix of the id.
C17_IdIsPackCodeAndIndex ==
    loaded = "built" =>
        \A k \in DOMAIN question_bank :
            \E p \in DOMAIN packs :
            \E i \in DOMAIN QuestionsIn(packs[p][2]) :
                /\ question_bank[k][1] = question_bank[k][2].id
                /\ question_bank[k][2].id = CodeOf(packs[p][1]) \o <<"-">> \o TwoDigits(i)
                /\ question_bank[k][2].category = CategoryOf(packs[p][1], packs[p][2])

\* a bank of two questions of one pack whose category is not its code
C17_Witness ==
    /\ loaded = "built"
    /\ Len(question_bank) = 2
    /\ question_bank[2][2].id = <<"S", "T", "-", "0", "2">>
    /\ question_bank[2][2].category = <<"S", "T", "R">>

-----------------------------------------------------------------------------
(* validate_question_bank on banks of malformed records.                    *)

\* the records of the bank are dicts whose driver codes are strings: what
\* else is malformed in them is of the kinds the loader and the validator
\* are said to bear (signatures or responses that are no dict, missing
\* lists, driver values that are no number or out of range)
RecordsAreDicts(bank) ==
    \A i \in DOMAIN bank :
        /\ bank[i][2].type = "dict"
        /\ \A j \in DOMAIN ValidatedDrivers(bank[i][2]) :
               ValidatedDrivers(bank[i][2])[j][1].type = "str"

\* C18: validate_question_bank returns on malformed records; it raises only
\* with raise_on_error = True and a record whose question text is empty.
C18_ValidationNeverRaises ==
    (loaded = "built" /\ ret.op = "validate" /\ RecordsAreDicts(ret.bank)) =>
        (ret.raised # "" =>
            /\ ret.raise_on_error
            /\ \E i \in DOMAIN ret.bank :
                   ~Truthy(DictGet(ret.bank[i][2].items, "question", PyNothing)))

-----------------------------------------------------------------------------
(* The clinical adapter: scores of a calculator module that lacks them.     *)

\* the names build_payload accepts for each score
AcceptedNames ==
    [mylifecheck         |-> {"run_mylifecheck", "calculate_mylifecheck"},
     prevent             |-> {"run_prevent", "calculate_prevent"},
     chads2vasc          |-> {"run_chads2vasc", "calculate_chads2vasc"},
     cardiac_rehab       |-> {"run_cardiac_rehab_eligibility",
                              "calculate_cardiac_rehab_eligibility"},
     healthy_day_at_home |-> {"run_healthy_day_at_home", "healthy_day_at_home"}]

\* the module has no function under any name accepted for the score
Unavailable(score) == \A n \in AcceptedNames[score] : ~HasCallable(calc_mod, n)

\* the should_run predicate of the score, on the payload's codes
Requested(score) ==
    CASE score = "mylifecheck" -> should_run_mylifecheck(payload.behavioral_core, payload.codes)
      [] score = "prevent" -> should_run_prevent(payload.behavioral_core, payload.codes)
      [] score = "chads2vasc" ->
            should_run_chads2vasc(payload.codes, extract_clinical_inputs(calc_mod))
      [] score = "cardiac_rehab" -> should_run_cardiac_rehab(payload.codes)
      [] OTHER -> should_run_healthy_day(payload.codes)

\* a score is None when the module has no function for it and when it is not
\* requested; a module with no function at all makes no call fail
AbsentScoresAreNone ==
    /\ Returned_payload =>
          \A score \in DOMAIN AcceptedNames :
              (Unavailable(score) \/ ~Requested(score))
                  => payload.measurement[score] = PyNone
    /\ (payload.done /\ \A score \in DOMAIN AcceptedNames : Unavailable(score))
          => payload.raised # "CalculatorError"

-----------------------------------------------------------------------------
(* The banks after they are built.                                          *)

-----------------------------------------------------------------------------
(* The prompts of the CLI.                                                   *)

\* what was typed at the prompt that has just been answered, as the prompt reads it
TypedAt(place) == cli.at = place /\ cli' # cli

\* the keys prompt_persona accepts, after strip and upper
PersonaKeys == {<<"1">>, <<"2">>, <<"3">>, <<"4">>, <<"L">>, <<"M">>, <<"D">>, <<"E">>}

\* the id typed names a question of the engine's bank
KnownId(typed) == \E i \in DOMAIN QUESTION_BANK : Spelling[QUESTION_BANK[i][1]] = strip(typed)

\* the text typed is an integer among -1, 0, 1
DriverValueTyped(typed) ==
    /\ IntOf(PyStr(typed)) # <<>>
    /\ IntOf(PyStr(typed))[1] \in {-1, 0, 1}

\* C21: in prompt_persona, the question-ID prompt and the driver-value
\* prompt, an invalid input (unknown persona key, unknown id, empty,
\* non-integer or out-of-range driver value) prints a warning and the same
\* prompt is issued again; the prompt is left only on a valid input, and what
\* it returns is valid: one of the four personas, a question of the bank, a
\* driver value among -1, 0, 1.
C21_PromptsRepeatUntilValid ==
    [][/\ (TypedAt("persona") /\ upper(strip(cli'.raw)) \notin PersonaKeys)
             => cli'.at = "persona" /\ cli'.warning # "" /\ cli'.persona = <<>>
       /\ (TypedAt("persona") /\ upper(strip(cli'.raw)) \in PersonaKeys)
             => /\ cli'.at = "use_preloaded"
                /\ cli'.persona # <<>>
                /\ cli'.persona[1] \in PERSONAS
       /\ (TypedAt("qid") /\ ~KnownId(cli'.raw))
             => cli'.at = "qid" /\ cli'.warning # "" /\ cli'.chosen = <<>>
       /\ (TypedAt("qid") /\ KnownId(cli'.raw))
             => /\ cli'.at = "extras"
                /\ cli'.chosen # <<>>
                /\ Spelling[cli'.chosen[1].qid] = strip(cli'.raw)
       /\ (TypedAt("value") /\ ~DriverValueTyped(cli'.raw))
             => cli'.at = "value" /\ cli'.warning # "" /\ cli'.drivers = cli.drivers
       /\ (TypedAt("value") /\ DriverValueTyped(cli'.raw))
             => /\ cli'.at = "driver"
                /\ DictGet(cli'.drivers, cli.code, 2) = IntOf(PyStr(cli'.raw))[1]
       /\ cli'.at = "returned"
             => /\ sig'.persona \in PERSONAS
                /\ \A i \in DOMAIN sig'.engagement_drivers :
                      sig'.engagement_drivers[i][2] \in {-1, 0, 1}
      ]_vars

\* an out-of-range value was typed and refused after a driver value had been
\* taken: the value prompt stands again
C21_Witness ==
    /\ cli.at = "value"
    /\ cli.raw = <<"2">>
    /\ cli.warning = "Must be -1, 0, or 1."
    /\ cli.drivers = << <<"PR", -1>> >>
    /\ cli.code = "HL"

\* C27: prompt_choose_preloaded_question returns None or a question that was
\* among those listed: with a category typed, the question returned belongs
\* to that category.
C27_ReturnedWasListed ==
    (cli.at \in {"extras", "driver", "value", "returned"} /\ cli.chosen # <<>>)
        => /\ \E i \in DOMAIN cli.listed : cli.listed[i] = cli.chosen[1]
           /\ cli.cat # <<>>
                 => lower(CategorySpelling[cli.chosen[1].category]) = lower(cli.cat)

-----------------------------------------------------------------------------
(* The blocks of the assembled output.                                       *)

\* the behavioral_core tag list of the question handed to the assembler
CoreTags == Get(question.attrs.signatures_tags, "behavioral_core", <<>>)

\* the codes of an output block, in order
BlockCodes(block) == [i \in DOMAIN block |-> block[i].code]

\* C22 as stated: the behavioral-core block of the assembled output always
\* has exactly one entry, the one for the question's behavioral core (GEN
\* when the question names none).
C22_ExactlyOneCoreEntry ==
    Returned_out =>
        /\ Len(out.signatures.behavioral_core) = 1
        /\ out.signatures.behavioral_core[1].code
              = (IF CoreTags = <<>> THEN "GEN" ELSE Head(CoreTags))

\* C22 as the code has it: the behavioral-core block has at least one entry:
\* one entry per code of the question's behavioral_core list, in the list's
\* order, each resolved in the behavioral-core registry for the persona, and
\* the single GEN entry when the list is missing or empty.
C22_OneEntryPerCoreCode ==
    Returned_out =>
        /\ Len(out.signatures.behavioral_core) >= 1
        /\ BlockCodes(out.signatures.behavioral_core)
              = (IF CoreTags = <<>> THEN <<"GEN">> ELSE CoreTags)
        /\ \A i \in DOMAIN out.signatures.behavioral_core :
              out.signatures.behavioral_core[i]
                  = ResolveEntry(BEHAVIORAL_CORE_MESSAGES,
                                 out.signatures.behavioral_core[i].code, persona)

\* a question that lists two behavioral cores was assembled
C22_Witness ==
    /\ Returned_out
    /\ CoreTags = <<"HL", "GO">>
    /\ Len(out.signatures.behavioral_core) = 2

\* no item of a list appears twice
NoRepeats(items) == \A i, j \in DOMAIN items : i # j => items[i] # items[j]

\* a list without its repeated items, each kept where it is first seen
RECURSIVE FirstSeen(_, _)
FirstSeen(kept, items) ==
    IF items = <<>> THEN kept
    ELSE FirstSeen(IF Head(items) \in Range(kept) THEN kept ELSE Append(kept, Head(items)),
                   Tail(items))

\* C23: action plans and content links are deduplicated: in the assembled
\* output no action-plan code and no link appears more than once, and the
\* items keep first-seen order, also when the question lists the same code
\* or link twice.
C23_Deduplicated ==
    /\ Returned_out =>
          BlockCodes(out.signatures.action_plans)
              = FirstSeen(<<>>, question.attrs.action_plan_codes)
    /\ Returned_payload =>
          /\ NoRepeats(payload.action_plans)
          /\ NoRepeats(payload.content_links)
          /\ HasAnswer =>
                \E rest \in {<<>>, <<AHA_LINKS["MYLIFECHECK"]>>} :
                    payload.content_links = FirstSeen(<<>>, preloaded[1].links) \o rest

\* the condition_modifiers tag list of the question handed to the assembler
ModTags == Get(question.attrs.signatures_tags, "condition_modifiers", <<>>)

\* an entry of a code the registry does not hold: the code as label, no message
UnknownShown(registry, block) ==
    \A i \in DOMAIN block :
        block[i].code \notin DOMAIN registry
            => block[i].label = block[i].code /\ block[i].message = <<>>

\* C24 as stated: the condition-modifier block has one entry per condition
\* code of the question, in sorted code order, and a code with no registry
\* match still appears with label equal to the code and an empty message.
C24_ModifiersInSortedOrder ==
    Returned_out =>
        /\ BlockCodes(out.signatures.condition_modifiers)
              = SelectSeq(SortedConditionCodes, LAMBDA c : c \in Range(ModTags))
        /\ UnknownShown(CONDITION_MODIFIER_MESSAGES, out.signatures.condition_modifiers)

\* C24 as the code has it: the condition-modifier block has one entry per
\* item of the question's condition_modifiers list, in the order of that
\* list (it is not sorted), and a code with no registry match still appears
\* with label equal to the code and an empty message.
C24_ModifiersInListOrder ==
    Returned_out =>
        /\ BlockCodes(out.signatures.condition_modifiers) = ModTags
        /\ UnknownShown(CONDITION_MODIFIER_MESSAGES, out.signatures.condition_modifiers)

\* a question tagged CV then CD was assembled: CV, which no registry entry
\* matches, comes first
C24_Witness ==
    /\ Returned_out
    /\ ModTags = <<"CV", "CD">>
    /\ "CV" \notin DOMAIN CONDITION_MODIFIER_MESSAGES
    /\ "CD" \in DOMAIN CONDITION_MODIFIER_MESSAGES
    /\ out.signatures.condition_modifiers[1].code = "CV"
    /\ out.signatures.condition_modifiers[1].label = "CV"

-----------------------------------------------------------------------------
(* The codes of the payload.                                                 *)

\* the codes the driver input sets to +1, in input order
DriversSetToOne ==
    DictKeys(SelectSeq(sig.engagement_drivers, LAMBDA kv : kv[2] = 1))

\* C25: in build_payload, active_drivers holds exactly the codes whose value
\* in the input engagement_drivers is +1, and codes[behavioral_core] is 1: a
\* behavioral core or condition code that is also a driver code (behavioral
\* core HL, as in CKM-09) is no active driver unless the driver input sets it
\* to +1, and a driver value for that code does not overwrite the core's
\* entry.
C25_ActiveDriversFromInput ==
    Returned_payload =>
        /\ Range(payload.active_drivers) = Range(DriversSetToOne)
        /\ DictGet(payload.codes, sig.behavioral_core, 0) = 1

-----------------------------------------------------------------------------
(* The exercise session.                                                     *)

\* the recommendations printed for the stages run so far
StageResults == SubSeq(session.printed, 1, session.i - 1)

-----------------------------------------------------------------------------
(* The size of the bank.                                                     *)

\* the number of raw questions over the packs
RECURSIVE RawQuestionCount(_)
RawQuestionCount(ps) ==
    IF ps = <<>> THEN 0 ELSE Len(QuestionsIn(Head(ps)[2])) + RawQuestionCount(Tail(ps))

\* every pack is a dict whose questions are a list
QuestionsAreLists(ps) ==
    \A i \in DOMAIN ps :
        /\ ps[i][2].type = "dict"
        /\ DictGet(ps[i][2].items, "questions", PyList(<<>>)).type = "list"

\* C28: build_question_bank loses no question: for packs whose questions are
\* lists, the built bank has exactly as many entries as there are raw
\* questions over all packs, also when two pack keys reduce to the same
\* upper-cased slug or a key reduces to the empty slug.
C28_NoQuestionLost ==
    (loaded = "built" /\ QuestionsAreLists(packs))
        => Len(question_bank) = RawQuestionCount(packs)

-----------------------------------------------------------------------------
(* The converter.                                                            *)

\* the line matches the Question pattern
IsQuestionLine(raw) == QuestionMatch(strip(raw)) # <<>>

\* the places of the Question lines in the pasted text, in order
QuestionPlaces ==
    SelectSeq([i \in DOMAIN parsed.lines |-> i], LAMBDA i : IsQuestionLine(parsed.lines[i]))

\* the places of the lines of the k-th question's block
BlockPlaces(k) ==
    {i \in DOMAIN parsed.lines :
        /\ i > QuestionPlaces[k]
        /\ k < Len(QuestionPlaces) => i < QuestionPlaces[k + 1]}

\* the personas that have a line in the k-th question's block
PersonasNamed(k) ==
    {Capitalize(PersonaMatch(strip(parsed.lines[i]))[1]) :
        i \in {j \in BlockPlaces(k) : PersonaMatch(strip(parsed.lines[j])) # <<>>}}

\* C29: parse_blocks emits exactly one QuestionItem per input line that
\* matches the Question pattern, in input order, and every emitted item has
\* exactly the four persona keys (the empty string when the persona had no
\* line); persona, Action Step, Why and other lines that come before the
\* first Question line produce no item and change no item.
C29_OneItemPerQuestionLine ==
    /\ parsed.at = "returned" =>
          /\ Len(parsed.items) = Len(QuestionPlaces)
          /\ \A k \in DOMAIN parsed.items :
                /\ parsed.items[k].question
                      = clean_quotes(QuestionMatch(strip(parsed.lines[QuestionPlaces[k]]))[1])
                /\ Len(parsed.items[k].responses) = 4
                /\ Range(DictKeys(parsed.items[k].responses)) = Range(CONVERT_PERSONAS)
                /\ \A p \in Range(CONVERT_PERSONAS) \ PersonasNamed(k) :
                      DictGet(parsed.items[k].responses, p, <<"none">>) = <<>>
    /\ (parsed.at = "loop" /\ \A i \in 1..(parsed.n - 1) : ~IsQuestionLine(parsed.lines[i]))
          => parsed.items = <<>> /\ parsed.current_q = <<>>

\* a persona line, then a question whose block names the Expert alone: one
\* item, with the Expert's text and the empty string for the Listener
C29_Witness ==
    /\ parsed.at = "returned"
    /\ Len(parsed.lines) = 3
    /\ PersonaMatch(parsed.lines[1]) # <<>>
    /\ IsQuestionLine(parsed.lines[2])
    /\ Len(parsed.items) = 1
    /\ DictGet(parsed.items[1].responses, "Expert", <<>>) = <<"lowers", "stroke", "risk">>
    /\ DictGet(parsed.items[1].responses, "Listener", <<"none">>) = <<>>

\* the categories the headings give to the questions: a heading-like line is
\* a line that is no Question line and lies outside the persona, Action Step,
\* Why and continuation lines of a question block
RECURSIVE HeadingCategories(_, _, _, _, _)
HeadingCategories(given, category, opened, in_persona, rest) ==
    IF rest = <<>> THEN given
    ELSE LET line == strip(Head(rest))
         IN  IF line = <<>>
             THEN HeadingCategories(given, category, opened, in_persona, Tail(rest))
             ELSE IF QuestionMatch(line) # <<>>
             THEN HeadingCategories(Append(given, category), category, TRUE, FALSE, Tail(rest))
             ELSE IF opened /\ PersonaMatch(line) # <<>>
             THEN HeadingCategories(given, category, opened, TRUE, Tail(rest))
             ELSE IF opened /\ (ActionMatch(line) # <<>> \/ WhyMatch(line) # <<>>)
             THEN HeadingCategories(given, category, opened, FALSE, Tail(rest))
             ELSE IF opened /\ in_persona
             THEN HeadingCategories(given, category, opened, in_persona, Tail(rest))
             ELSE HeadingCategories(given, detect_category_from_line(line, category),
                                    opened, in_persona, Tail(rest))

\* C30: in parse_blocks category detection is based on headings: the category
\* given to a question is the one suggested by the latest heading-like line
\* before it, and a persona, Action Step, Why or continuation line inside a
\* question block that mentions a condition does not change the category
\* given to later questions.
C30_CategoryFromHeadings ==
    parsed.at = "returned" =>
        [k \in DOMAIN parsed.items |-> parsed.items[k].category]
            = HeadingCategories(<<>>, "GENERAL", FALSE, FALSE, parsed.lines)

===============================================================================
